---- MODULE Spec2Model ----
(***************************************************************************)
(* A model of the Mython interpreter: the indentation-sensitive lexer      *)
(* (lexer.h / lexer.cpp) and the tree-walking evaluator (runtime.cpp,      *)
(* statement.cpp).                                                         *)
(***************************************************************************)
EXTENDS Integers, Sequences, FiniteSets, TLC

VARIABLES
    \* ---- lexer (class Lexer and the input it is constructed from) ----
    pc,             \* position inside Lexer::Lexer / after construction
    nlines,         \* lines getline has delivered so far
    stream,         \* the stringstream of the line being parsed
    tokens_,        \* Lexer::tokens_
    indent_size_,   \* Lexer::indent_size_
    current_token_, \* Lexer::current_token_
    current_index_, \* Lexer::current_index_
    yielded,        \* what CurrentToken()/NextToken() returned to the caller, in order
    \* ---- evaluator (runtime objects, closures, context) ----
    classes,        \* the runtime::Class objects of the program
    closure,        \* the closure the executed node runs in
    fields,         \* ClassInstance::closure_ of every instance
    output,         \* the context's output stream
    last            \* the node executed last and what its Execute produced

lexvars == <<pc, nlines, stream, tokens_, indent_size_, current_token_, current_index_, yielded>>
evalvars == <<classes, closure, fields, output, last>>
vars == <<pc, nlines, stream, tokens_, indent_size_, current_token_, current_index_, yielded,
          classes, closure, fields, output, last>>

\* ------------------------------------------------------------------
\* Bounds of the model
\* ------------------------------------------------------------------
MaxLines == 2          \* lines of the text the lexer is constructed from
MaxIndent == 3         \* leading spaces of a line
MaxBody == 1           \* characters of a line after its leading spaces
MaxCursorLines == 1    \* lines of the text when the caller walks the cursor
MaxExtraAdvance == 2   \* NextToken() calls made after Eof became current

\* ------------------------------------------------------------------
\* Characters
\* ------------------------------------------------------------------
EOFC == "EOF"

Digits == {"0", "1", "2", "3", "4", "5", "6", "7", "8", "9"}

Letters == {"a", "b", "c", "d", "e", "f", "g", "h", "i", "j", "k", "l", "m",
            "n", "o", "p", "q", "r", "s", "t", "u", "v", "w", "x", "y", "z",
            "A", "B", "C", "D", "E", "F", "G", "H", "I", "J", "K", "L", "M",
            "N", "O", "P", "Q", "R", "S", "T", "U", "V", "W", "X", "Y", "Z"}

isdigit(c) == c \in Digits
isalpha(c) == c \in Letters
isalnum(c) == isdigit(c) \/ isalpha(c)

DigitValue(c) == CASE c = "0" -> 0 [] c = "1" -> 1 [] c = "2" -> 2 [] c = "3" -> 3
                   [] c = "4" -> 4 [] c = "5" -> 5 [] c = "6" -> 6 [] c = "7" -> 7
                   [] c = "8" -> 8 [] c = "9" -> 9

\* The characters the input lines are drawn from: a space, the comment sign, a
\* letter, a digit, a quote, an operator sign, a plain punctuator and a
\* character LoadTokens has no branch for.
Alphabet == {" ", "#", "a", "1", "\"", "=", ":", "~"}

Bodies == UNION {[1..n -> Alphabet] : n \in 0..MaxBody}

Spaces(k) == [i \in 1..k |-> " "]

Lines == {Spaces(k) \o b : k \in 0..MaxIndent, b \in Bodies}

\* ------------------------------------------------------------------
\* Tokens
\* ------------------------------------------------------------------
Tok(t) == [type |-> t]
ValTok(t, v) == [type |-> t, value |-> v]

key_words_token_ == {<<"c","l","a","s","s">>, <<"r","e","t","u","r","n">>, <<"i","f">>,
                     <<"e","l","s","e">>, <<"d","e","f">>, <<"p","r","i","n","t">>,
                     <<"a","n","d">>, <<"o","r">>, <<"n","o","t">>, <<"N","o","n","e">>,
                     <<"T","r","u","e">>, <<"F","a","l","s","e">>}

KeyWordToken(w) == CASE w = <<"c","l","a","s","s">> -> Tok("Class")
                     [] w = <<"r","e","t","u","r","n">> -> Tok("Return")
                     [] w = <<"i","f">> -> Tok("If")
                     [] w = <<"e","l","s","e">> -> Tok("Else")
                     [] w = <<"d","e","f">> -> Tok("Def")
                     [] w = <<"p","r","i","n","t">> -> Tok("Print_")
                     [] w = <<"a","n","d">> -> Tok("And")
                     [] w = <<"o","r">> -> Tok("Or")
                     [] w = <<"n","o","t">> -> Tok("Not")
                     [] w = <<"N","o","n","e">> -> Tok("None")
                     [] w = <<"T","r","u","e">> -> Tok("True")
                     [] w = <<"F","a","l","s","e">> -> Tok("False")

special_operators_ == {"=", "!", "<", ">"}

SpecialOperatorToken(first) == CASE first = "=" -> Tok("Eq")
                                 [] first = "!" -> Tok("NotEq")
                                 [] first = "<" -> Tok("LessOrEq")
                                 [] first = ">" -> Tok("GreaterOrEq")

special_symbols_ == {"'", "\"", "n", "t"}

IsChar(c) == c \in {".", ",", "(", "+", ")", "-", "*", "/", ":", "@", "%", "$", "^", "&",
                    ";", "?", "=", "<", ">", "!", "{", "}", "[", "]"}

\* ------------------------------------------------------------------
\* std::istream over one line: the unread characters and the state bits
\* ------------------------------------------------------------------
NewStream(line) == [buf |-> line, eof |-> FALSE, fail |-> FALSE]

Good(s) == ~s.eof /\ ~s.fail

\* input.peek(): the next character, EOF at the end or on a stream that is not good
Peek(s) == IF Good(s) /\ s.buf # <<>> THEN Head(s.buf) ELSE EOFC

\* the stream after peek(): eofbit at the end, failbit when it was not good
AfterPeek(s) == IF ~Good(s) THEN [s EXCEPT !.fail = TRUE]
                ELSE IF s.buf = <<>> THEN [s EXCEPT !.eof = TRUE]
                ELSE s

\* input.ignore()
Ignore(s) == IF ~Good(s) THEN [s EXCEPT !.fail = TRUE]
             ELSE IF s.buf = <<>> THEN [s EXCEPT !.eof = TRUE]
             ELSE [s EXCEPT !.buf = Tail(s.buf)]

\* input.get() and input >> noskipws >> c: c is the character read, ok tells
\* whether one was read; at the end both eofbit and failbit are set
Get(s) == IF ~Good(s) THEN [s |-> [s EXCEPT !.fail = TRUE], c |-> EOFC, ok |-> FALSE]
          ELSE IF s.buf = <<>> THEN [s |-> [s EXCEPT !.eof = TRUE, !.fail = TRUE], c |-> EOFC, ok |-> FALSE]
          ELSE [s |-> [s EXCEPT !.buf = Tail(s.buf)], c |-> Head(s.buf), ok |-> TRUE]

\* input.putback(c): clears eofbit, then puts c back when the stream is good
Putback(s, c) == LET t == [s EXCEPT !.eof = FALSE]
                 IN IF ~Good(t) THEN [t EXCEPT !.fail = TRUE]
                    ELSE [t EXCEPT !.buf = <<c>> \o t.buf]

\* ------------------------------------------------------------------
\* Lexer: helpers of ParseTextOnTokens
\* ------------------------------------------------------------------

\* StringIsEmpty that takes only a line of spaces for empty
StringIsBlank(str) == \A i \in 1..Len(str) : str[i] = " "

\* Lexer::StringIsEmpty: only spaces, or only spaces before a '#'
RECURSIVE StringIsEmpty(_)
StringIsEmpty(str) == IF str = <<>> THEN TRUE
                      ELSE IF Head(str) # " " THEN Head(str) = "#"
                      ELSE StringIsEmpty(Tail(str))

\* LoadIndent that marks any deeper line with a single Indent
LoadIndentOnce(st, current_indent) ==
    IF st.ind < current_indent
    THEN [toks |-> Append(st.toks, Tok("Indent")), ind |-> current_indent]
    ELSE st

\* Lexer::LoadIndent(current_indent): st is [toks, ind]
RECURSIVE LoadIndent(_, _)
LoadIndent(st, current_indent) ==
    IF st.ind < current_indent
    THEN LoadIndent([toks |-> Append(st.toks, Tok("Indent")), ind |-> st.ind + 2], current_indent)
    ELSE st

\* LoadDedent lowering indent_size_ by one space per Dedent instead of two
RECURSIVE LoadDedentByOne(_, _)
LoadDedentByOne(st, current_indent) ==
    IF st.ind > current_indent
    THEN LoadDedentByOne([toks |-> Append(st.toks, Tok("Dedent")), ind |-> st.ind - 1], current_indent)
    ELSE st

\* LoadDedent that also steps down when indent_size_ equals the target
LoadDedentThroughTarget(st, current_indent) ==
    IF st.ind >= current_indent
    THEN [toks |-> Append(st.toks, Tok("Dedent")), ind |-> st.ind - 2]
    ELSE st

\* Lexer::LoadDedent(current_indent)
RECURSIVE LoadDedent(_, _)
LoadDedent(st, current_indent) ==
    IF st.ind > current_indent
    THEN LoadDedent([toks |-> Append(st.toks, Tok("Dedent")), ind |-> st.ind - 2], current_indent)
    ELSE st

\* the do-while of LoadTab: the stream after its leading spaces, and their count
RECURSIVE SkipSpaces(_, _)
SkipSpaces(s, i) == IF Peek(s) = " " THEN SkipSpaces(Ignore(s), i + 1)
                    ELSE [s |-> AfterPeek(s), i |-> i]

\* Lexer::LoadTab: returns [s, toks, ind]
LoadTab(s, toks, ind) ==
    IF Peek(s) = " "
    THEN LET sk == SkipSpaces(s, 0)
             st == IF sk.i > ind THEN LoadIndent([toks |-> toks, ind |-> ind], sk.i)
                   ELSE LoadDedent([toks |-> toks, ind |-> ind], sk.i)
         IN [s |-> sk.s, toks |-> st.toks, ind |-> st.ind]
    ELSE LET st == LoadDedent([toks |-> toks, ind |-> ind], 0)
         IN [s |-> AfterPeek(s), toks |-> st.toks, ind |-> st.ind]

\* LoadEndl with the test of the last token inverted
LoadEndlInverted(toks) == IF toks # <<>> /\ toks[Len(toks)].type = "Newline"
                          THEN Append(toks, Tok("Newline"))
                          ELSE toks

\* Lexer::LoadEndl
LoadEndl(toks) == IF toks # <<>> /\ toks[Len(toks)].type # "Newline"
                  THEN Append(toks, Tok("Newline"))
                  ELSE toks

\* Lexer::LoadEof
LoadEof(toks) == Append(toks, Tok("Eof"))

\* Lexer::LoadChar
LoadChar(toks, c) == Append(toks, ValTok("Char", c))

\* ------------------------------------------------------------------
\* Lexer::ReadString and the Load* functions built on it
\* ------------------------------------------------------------------
Uninit == "uninit"

\* the predicates ReadString is called with: "digit" (LoadNumber), "word"
\* (LoadWord), or the opening quote (LoadString: c != end)
Pred(p, c) == CASE p = "digit" -> isdigit(c)
                [] p = "word" -> c = "_" \/ isalnum(c)
                [] OTHER -> c # p

\* the character stored for an escape sequence
Escaped(ch) == CASE ch = "n" -> "\n" [] ch = "t" -> "\t" [] OTHER -> ch

\* the while loop of ReadString: [s, res, c], c the character read last
RECURSIVE ReadLoop(_, _, _, _)
ReadLoop(s, p, res, c) ==
    IF s.eof THEN [s |-> s, res |-> res, c |-> c]
    ELSE LET g == Get(s)
         IN IF ~g.ok THEN ReadLoop(g.s, p, res, c)
            ELSE IF ~Pred(p, g.c) THEN [s |-> g.s, res |-> res, c |-> g.c]
            ELSE IF g.c = "\\"
                 THEN LET h == Get(g.s)
                      IN ReadLoop(h.s, p,
                                  IF h.c \in special_symbols_ THEN Append(res, Escaped(h.c)) ELSE res,
                                  g.c)
                 ELSE ReadLoop(g.s, p, Append(res, g.c), g.c)

\* Lexer::ReadString. When no character was read c is indeterminate; that
\* happens only under LoadString, where !pred(c) means c is the quote and the
\* second test then fails for every value c can hold: nothing is put back.
ReadString(s, p) ==
    LET r == ReadLoop(s, p, <<>>, Uninit)
    IN IF ~Pred(p, r.c) /\ r.c # "'" /\ r.c # "\""
       THEN [s |-> Putback(r.s, r.c), res |-> r.res]
       ELSE [s |-> r.s, res |-> r.res]

\* std::stoi of a digit run
RECURSIVE stoi(_)
stoi(ds) == IF ds = <<>> THEN 0
            ELSE 10 * stoi(SubSeq(ds, 1, Len(ds) - 1)) + DigitValue(ds[Len(ds)])

\* Lexer::LoadNumber; st is [s, toks]
LoadNumber(st) == LET r == ReadString(st.s, "digit")
                  IN [s |-> r.s, toks |-> Append(st.toks, ValTok("Number", stoi(r.res)))]

\* Lexer::LoadString
LoadString(st) == LET g == Get(st.s)
                      r == ReadString(g.s, g.c)
                  IN [s |-> r.s, toks |-> Append(st.toks, ValTok("String", r.res))]

\* Lexer::LoadWord
LoadWord(st) == LET r == ReadString(st.s, "word")
                IN [s |-> r.s,
                    toks |-> Append(st.toks, IF r.res \in key_words_token_
                                             THEN KeyWordToken(r.res)
                                             ELSE ValTok("Id", r.res))]

\* Lexer::LoadSign
LoadSign(st) == LET g == Get(st.s)
                IN IF Peek(g.s) = "="
                   THEN [s |-> Get(g.s).s, toks |-> Append(st.toks, SpecialOperatorToken(g.c))]
                   ELSE [s |-> AfterPeek(g.s), toks |-> LoadChar(st.toks, g.c)]

\* the four token branches of one LoadTokens iteration, in the order of the code
NumberBranch(st) == IF isdigit(Peek(st.s)) THEN LoadNumber(st)
                    ELSE [st EXCEPT !.s = AfterPeek(st.s)]

StringBranch(st) == IF Peek(st.s) = "\"" \/ Peek(st.s) = "'" THEN LoadString(st)
                    ELSE [st EXCEPT !.s = AfterPeek(AfterPeek(st.s))]

WordBranch(st) == IF Peek(st.s) = "_" \/ isalpha(Peek(st.s)) THEN LoadWord(st)
                  ELSE [st EXCEPT !.s = AfterPeek(AfterPeek(st.s))]

CharBranch(st) == IF IsChar(Peek(st.s))
                  THEN IF Peek(st.s) \in special_operators_ THEN LoadSign(st)
                       ELSE LET g == Get(st.s) IN [s |-> g.s, toks |-> LoadChar(st.toks, g.c)]
                  ELSE [st EXCEPT !.s = AfterPeek(st.s)]

\* one iteration of the while loop of Lexer::LoadTokens: [s, toks, brk], brk
\* telling whether the iteration left the loop at a '#'
LoadTokensIter(s, toks) ==
    LET s1 == IF Peek(s) = " " THEN Ignore(s) ELSE AfterPeek(s)
    IN IF Peek(s1) = "#" THEN [s |-> s1, toks |-> toks, brk |-> TRUE]
       ELSE LET r == CharBranch(WordBranch(StringBranch(NumberBranch(
                          [s |-> AfterPeek(s1), toks |-> toks]))))
            IN [s |-> r.s, toks |-> r.toks, brk |-> FALSE]

\* NextToken with its bound off by one: the cursor stops before the last token
NextTokenOffByOne(idx, cur, toks) ==
    IF idx + 1 < Len(toks) THEN [idx |-> idx + 1, cur |-> toks[idx + 1]]
    ELSE [idx |-> idx, cur |-> cur]

\* Lexer::NextToken on [idx, cur]: the cursor after the call
NextToken(idx, cur, toks) ==
    IF idx < Len(toks) THEN [idx |-> idx + 1, cur |-> toks[idx + 1]]
    ELSE [idx |-> idx, cur |-> cur]

\* ------------------------------------------------------------------
\* The lexer as a state machine: Lexer::Lexer reads the input line by line
\* (ParseTextOnTokens), then the caller walks the cursor
\* ------------------------------------------------------------------
NoStream == NewStream(<<>>)

\* the members of a Lexer before its constructor body runs
LexInit ==
    /\ pc = "getline"
    /\ nlines = 0
    /\ stream = NoStream
    /\ tokens_ = <<>>
    /\ indent_size_ = 0
    /\ current_token_ = ValTok("Number", 0)
    /\ current_index_ = 0
    /\ yielded = <<>>

\* the evaluator is not running
EvalIdle ==
    /\ classes = <<>>
    /\ closure = <<>>
    /\ fields = <<>>
    /\ output = <<>>
    /\ last = <<>>

\* a skipped line that still ends in a Newline token
SkipLineWithNewline(max) ==
    /\ pc = "getline"
    /\ nlines < max
    /\ \E line \in Lines : StringIsEmpty(line)
    /\ nlines' = nlines + 1
    /\ tokens_' = Append(tokens_, Tok("Newline"))
    /\ UNCHANGED <<pc, stream, indent_size_, current_token_, current_index_, yielded>>
    /\ UNCHANGED evalvars

\* ParseTextOnTokens: getline delivers a line StringIsEmpty skips
SkipLine(max) ==
    /\ pc = "getline"
    /\ nlines < max
    /\ \E line \in Lines : StringIsEmpty(line)
    /\ nlines' = nlines + 1
    /\ UNCHANGED <<pc, stream, tokens_, indent_size_, current_token_, current_index_, yielded>>
    /\ UNCHANGED evalvars

\* ParseTextOnTokens: getline delivers any other line; ParseString runs LoadTab
\* on it and enters LoadTokens
ParseString(max) ==
    /\ pc = "getline"
    /\ nlines < max
    /\ \E line \in Lines :
          /\ ~StringIsEmpty(line)
          /\ LET r == LoadTab(NewStream(line), tokens_, indent_size_)
             IN /\ stream' = r.s
                /\ tokens_' = r.toks
                /\ indent_size_' = r.ind
    /\ pc' = "LoadTokens"
    /\ nlines' = nlines + 1
    /\ UNCHANGED <<current_token_, current_index_, yielded>>
    /\ UNCHANGED evalvars

\* one iteration of the loop of LoadTokens; the iteration that leaves the loop
\* (a '#', or eofbit set) is followed by LoadEndl and the next getline
LoadTokens ==
    /\ pc = "LoadTokens"
    /\ ~stream.eof
    /\ LET r == LoadTokensIter(stream, tokens_)
       IN IF r.brk \/ r.s.eof
          THEN /\ tokens_' = LoadEndl(r.toks)
               /\ stream' = NoStream
               /\ pc' = "getline"
          ELSE /\ tokens_' = r.toks
               /\ stream' = r.s
               /\ pc' = "LoadTokens"
    /\ UNCHANGED <<nlines, indent_size_, current_token_, current_index_, yielded>>
    /\ UNCHANGED evalvars

\* ParseTextOnTokens after the last line: LoadDedent(), LoadEof(), NextToken()
Finish ==
    /\ pc = "getline"
    /\ LET st == LoadDedent([toks |-> tokens_, ind |-> indent_size_], 0)
           toks == LoadEof(st.toks)
           nt == NextToken(current_index_, current_token_, toks)
       IN /\ tokens_' = toks
          /\ indent_size_' = st.ind
          /\ current_index_' = nt.idx
          /\ current_token_' = nt.cur
    /\ pc' = "done"
    /\ UNCHANGED <<nlines, stream, yielded>>
    /\ UNCHANGED evalvars

\* the caller's first look at the constructed lexer: Lexer::CurrentToken
CurrentToken ==
    /\ pc = "done"
    /\ yielded = <<>>
    /\ yielded' = <<[call |-> "CurrentToken", tok |-> current_token_]>>
    /\ UNCHANGED <<pc, nlines, stream, tokens_, indent_size_, current_token_, current_index_>>
    /\ UNCHANGED evalvars

\* the caller advances: Lexer::NextToken
Advance ==
    /\ pc = "done"
    /\ Len(yielded) < Len(tokens_) + MaxExtraAdvance
    /\ LET nt == NextToken(current_index_, current_token_, tokens_)
       IN /\ current_index_' = nt.idx
          /\ current_token_' = nt.cur
          /\ yielded' = Append(yielded, [call |-> "NextToken", tok |-> nt.cur])
    /\ UNCHANGED <<pc, nlines, stream, tokens_, indent_size_>>
    /\ UNCHANGED evalvars

\* constructing a lexer from a text of at most MaxLines lines
NextLex == SkipLine(MaxLines) \/ ParseString(MaxLines) \/ LoadTokens \/ Finish

InitLex == LexInit /\ EvalIdle

SpecLex == InitLex /\ [][NextLex]_vars

\* constructing a lexer from a text of at most MaxCursorLines lines and walking
\* its cursor
NextCursor ==
    \/ SkipLine(MaxCursorLines)
    \/ ParseString(MaxCursorLines)
    \/ LoadTokens
    \/ Finish
    \/ CurrentToken
    \/ Advance

SpecCursor == InitLex /\ [][NextCursor]_vars

\* ---- indentation: the lines of a text, one getline at a time ----------
MaxTabLines == 3   \* lines of the text
MaxTab == 4        \* leading spaces of a line

\* what follows the leading spaces: nothing, a comment, a word
TabBodies == {<<>>, <<"#">>, <<"a">>}

TabLines == {Spaces(k) \o b : k \in 0..MaxTab, b \in TabBodies}

InitIndent ==
    /\ LexInit
    /\ classes = <<>>
    /\ closure = <<>>
    /\ fields = <<>>
    /\ output = <<>>
    /\ last = [op |-> "none"]

\* one turn of the loop of ParseTextOnTokens up to the call of LoadTokens;
\* last records the line and what tokens_ and indent_size_ were before it
GetLine ==
    /\ pc = "getline"
    /\ nlines < MaxTabLines
    /\ \E line \in TabLines :
          /\ last' = [op |-> "getline", line |-> line, toks |-> tokens_, ind |-> indent_size_]
          /\ IF StringIsEmpty(line)
             THEN UNCHANGED <<pc, stream, tokens_, indent_size_>>
             ELSE LET r == LoadTab(NewStream(line), tokens_, indent_size_)
                  IN /\ stream' = r.s
                     /\ tokens_' = r.toks
                     /\ indent_size_' = r.ind
                     /\ pc' = "LoadTokens"
    /\ nlines' = nlines + 1
    /\ UNCHANGED <<current_token_, current_index_, yielded, classes, closure, fields, output>>

NextIndent == GetLine \/ LoadTokens \/ Finish

SpecIndent == InitIndent /\ [][NextIndent]_vars

\* ---- Expect and ExpectNext ---------------------------------------------

\* the token types a caller may ask for, and those that carry a value
ValuedTypes == {"Number", "Id", "Char", "String"}
TokenTypes == ValuedTypes \cup {"Newline", "Indent", "Dedent", "Eof", "Eq", "Class"}

\* the values a caller may ask for with a valued type
ExpectedValues(T) == CASE T = "Number" -> {0, 1}
                       [] T = "Id" -> {<<"a">>, <<"b">>}
                       [] T = "Char" -> {"=", ":"}
                       [] T = "String" -> {<<>>, <<"a">>}

LexerError(msg) == [ok |-> FALSE, err |-> msg]

\* Lexer::Expect<T>()
Expect(cur, T) ==
    IF cur.type # T THEN LexerError("The token is not of the appropriate type")
    ELSE [ok |-> TRUE, tok |-> cur]

\* Lexer::Expect<T, U>(value) that compares no payload
ExpectValueTypeOnly(cur, T, value) == Expect(cur, T)

\* Lexer::Expect<T, U>(value)
ExpectValue(cur, T, value) ==
    LET e == Expect(cur, T)
    IN IF ~e.ok THEN e
       ELSE IF cur.value # value THEN LexerError("A token with an invalid value")
       ELSE [ok |-> TRUE]

\* the cursor of the lexer
Cursor == [idx |-> current_index_, cur |-> current_token_]

\* the caller calls Expect<T>(), once
CallExpect ==
    \E T \in TokenTypes :
        /\ pc = "done"
        /\ DOMAIN last = {}
        /\ last' = [op |-> "Expect", type |-> T, valued |-> FALSE,
                    res |-> Expect(current_token_, T), before |-> Cursor, after |-> Cursor]
        /\ UNCHANGED <<lexvars, classes, closure, fields, output>>

\* the caller calls Expect<T>(value), once
CallExpectValue ==
    \E T \in ValuedTypes : \E value \in ExpectedValues(T) :
        /\ pc = "done"
        /\ DOMAIN last = {}
        /\ last' = [op |-> "Expect", type |-> T, valued |-> TRUE, value |-> value,
                    res |-> ExpectValue(current_token_, T, value), before |-> Cursor, after |-> Cursor]
        /\ UNCHANGED <<lexvars, classes, closure, fields, output>>

\* the caller calls ExpectNext<T>(), once: NextToken, then Expect
CallExpectNext ==
    \E T \in TokenTypes :
        LET nt == NextToken(current_index_, current_token_, tokens_)
        IN /\ pc = "done"
           /\ DOMAIN last = {}
           /\ current_index_' = nt.idx
           /\ current_token_' = nt.cur
           /\ last' = [op |-> "ExpectNext", type |-> T, valued |-> FALSE,
                       res |-> Expect(nt.cur, T), before |-> Cursor, after |-> nt]
           /\ UNCHANGED <<pc, nlines, stream, tokens_, indent_size_, yielded, classes, closure, fields, output>>

\* the caller calls ExpectNext<T>(value), once
CallExpectNextValue ==
    \E T \in ValuedTypes : \E value \in ExpectedValues(T) :
        LET nt == NextToken(current_index_, current_token_, tokens_)
        IN /\ pc = "done"
           /\ DOMAIN last = {}
           /\ current_index_' = nt.idx
           /\ current_token_' = nt.cur
           /\ last' = [op |-> "ExpectNext", type |-> T, valued |-> TRUE, value |-> value,
                       res |-> ExpectValue(nt.cur, T, value), before |-> Cursor, after |-> nt]
           /\ UNCHANGED <<pc, nlines, stream, tokens_, indent_size_, yielded, classes, closure, fields, output>>

\* constructing a lexer from a text of one line, walking its cursor and asking
\* for a token
NextExpect ==
    \/ SkipLine(1)
    \/ ParseString(1)
    \/ LoadTokens
    \/ Finish
    \/ Advance
    \/ CallExpect
    \/ CallExpectValue
    \/ CallExpectNext
    \/ CallExpectNextValue

SpecExpect == InitLex /\ [][NextExpect]_vars

\* ==================================================================
\* The evaluator: runtime objects (runtime.cpp) and AST nodes (statement.cpp)
\* ==================================================================

\* ------------------------------------------------------------------
\* What an ObjectHolder refers to
\* ------------------------------------------------------------------
NoneV == [t |-> "None"]
Num(n) == [t |-> "Number", v |-> n]
Str(s) == [t |-> "String", v |-> s]
BoolV(b) == [t |-> "Bool", v |-> b]
ClassV(name) == [t |-> "Class", name |-> name]
\* a ClassInstance: its identity and its cls_
Inst(id, cls) == [t |-> "Instance", id |-> id, cls |-> cls]
\* what a thrown runtime_error carries
ErrV(msg) == [t |-> "Error", msg |-> msg]

\* runtime::Closure: a map from names to values
EmptyClosure == [n \in {} |-> NoneV]

\* closure[name] = v
Put(cl, name, v) == [x \in DOMAIN cl \cup {name} |-> IF x = name THEN v ELSE cl[x]]

\* closure.emplace(name, v): an existing entry is kept
Emplace(cl, name, v) == IF name \in DOMAIN cl THEN cl ELSE Put(cl, name, v)

\* runtime::IsTrue taking every object that exists for true
IsTrueOfObjects(v) == CASE v.t = "Number" -> v.v # 0
                        [] v.t = "String" -> v.v # ""
                        [] v.t = "Bool" -> v.v
                        [] v.t = "None" -> FALSE
                        [] OTHER -> TRUE

\* runtime::IsTrue
IsTrue(v) == CASE v.t = "Number" -> v.v # 0
               [] v.t = "String" -> v.v # ""
               [] v.t = "Bool" -> v.v
               [] OTHER -> FALSE

\* ------------------------------------------------------------------
\* Classes and method resolution
\* ------------------------------------------------------------------
NoParent == "nullptr"

NoMethod == [found |-> FALSE]

\* the loop of Class::GetMethod over methods_, from index i
RECURSIVE FirstNamed(_, _, _)
FirstNamed(ms, name, i) == IF i > Len(ms) THEN 0
                           ELSE IF ms[i].name = name THEN i
                           ELSE FirstNamed(ms, name, i + 1)

\* Class::GetMethod asking the parent before the class's own methods
RECURSIVE GetMethodParentFirst(_, _, _)
GetMethodParentFirst(ct, c, name) ==
    LET i == FirstNamed(ct[c].methods, name, 1)
        up == IF ct[c].parent # NoParent THEN GetMethodParentFirst(ct, ct[c].parent, name) ELSE NoMethod
    IN IF up.found THEN up
       ELSE IF i # 0 THEN [found |-> TRUE, cls |-> c, idx |-> i, m |-> ct[c].methods[i]]
       ELSE NoMethod

\* Class::GetMethod: the method found, with the class that declares it and its
\* index there (the identity of the Method object), or NoMethod for nullptr
RECURSIVE GetMethod(_, _, _)
GetMethod(ct, c, name) ==
    LET i == FirstNamed(ct[c].methods, name, 1)
    IN IF i # 0 THEN [found |-> TRUE, cls |-> c, idx |-> i, m |-> ct[c].methods[i]]
       ELSE IF ct[c].parent # NoParent THEN GetMethod(ct, ct[c].parent, name)
       ELSE NoMethod

\* ClassInstance::HasMethod
HasMethod(ct, c, method, argument_count) ==
    LET ptr_method == GetMethod(ct, c, method)
    IN ptr_method.found /\ Len(ptr_method.m.formal_params) = argument_count

\* ------------------------------------------------------------------
\* Execute: every node returns [k, v, cl, st]
\*   k   "ok" (a value was returned), "ret" (an ObjectHolder was thrown by
\*       Return), "err" (a runtime_error was thrown), "crash" (a null
\*       ObjectHolder was dereferenced), "ub" (a released object was read)
\*   v   the value returned or thrown
\*   cl  the closure the node ran in, after the node
\*   st  the instances' fields, the output stream out, the record trace of
\*       what was executed, and who owns what (ret, own, ids, frame, frames,
\*       args)
\* A node is identified by its path: the method body (class, index) or "main"
\* it belongs to, then the child positions leading to it.
\* ------------------------------------------------------------------
R(k, v, cl, st) == [k |-> k, v |-> v, cl |-> cl, st |-> st]

Log(st, ev, path, op, v) ==
    [st EXCEPT !.trace = Append(@, [ev |-> ev, path |-> path, op |-> op, v |-> v])]

Write(st, text) == [st EXCEPT !.out = Append(@, text)]

\* ------------------------------------------------------------------
\* Who owns what an ObjectHolder refers to. ObjectHolder::Own makes a new
\* object on the heap that lives while some owning holder refers to it; it
\* is numbered st.ids + 1. ObjectHolder::Share and ObjectHolder::None own
\* nothing: what Share refers to is a member of a node or of the host and is
\* never released. An owning holder is stored in a closure or in the fields
\* of an instance; every other holder is a local of a running Execute and is
\* gone when that returns.
\*   st.ret    the object owned by the holder the last Execute returned, 0
\*             for a holder that owns nothing
\*   st.own    the stored owning holders, as [loc, id]
\*   st.frame  the closure of the running call, st.frames the calls so far
\*   st.args   what the holders of the arguments of the next call own
\* ------------------------------------------------------------------
\* the place of a name in the closure of call number frame (0: the host's)
ClosureLoc(frame, name) == [frame |-> frame, inst |-> <<>>, name |-> name]

\* the place of a field in the Fields() of the instance id
FieldLoc(id, name) == [frame |-> -1, inst |-> id, name |-> name]

\* ObjectHolder returned by Share, or the empty one
Shared(st) == [st EXCEPT !.ret = 0]

\* ObjectHolder::Own
Own(st) == [st EXCEPT !.ids = @ + 1, !.ret = st.ids + 1]

\* what the holder stored at loc owns
OwnerAt(st, loc) == IF \E e \in st.own : e.loc = loc
                    THEN (CHOOSE e \in st.own : e.loc = loc).id
                    ELSE 0

\* the returned holder is copied into loc, replacing the holder there
Store(st, loc) == [st EXCEPT !.own = {e \in @ : e.loc # loc}
                                        \cup (IF st.ret = 0 THEN {} ELSE {[loc |-> loc, id |-> st.ret]})]

\* the returned holder was the last owner of its object: once it is
\* destroyed, the object is released
Released(st) == st.ret # 0 /\ \A e \in st.own : e.id # st.ret

\* the holders of the arguments handed to ClassInstance::Call
Handed(st, rets) == [st EXCEPT !.args = rets]

Absent == [op |-> "Absent"]

INIT_METHOD == "__init__"
STR_METHOD == "__str__"

\* the Fields() of the instance id: empty until a field is stored
FieldsOf(flds, id) == IF id \in DOMAIN flds THEN flds[id] ELSE EmptyClosure

\* the loop of VariableValue::Execute that never replaces copy by the fields
\* of the instance: every segment is looked up in the closure
RECURSIVE LookupInClosure(_, _, _, _)
LookupInClosure(dotted_ids, i, copy, flds) ==
    LET field_name == dotted_ids[i]
    IN IF field_name \notin DOMAIN copy THEN [k |-> "err", v |-> ErrV("Not field" \o field_name)]
       ELSE IF i = Len(dotted_ids) THEN [k |-> "ok", v |-> copy[field_name]]
       ELSE IF copy[field_name].t # "Instance" THEN [k |-> "err", v |-> ErrV("This isn't object")]
       ELSE LookupInClosure(dotted_ids, i + 1, copy, flds)

\* the loop of VariableValue::Execute from segment i, copy being the closure the
\* segment is looked up in
RECURSIVE Lookup(_, _, _, _)
Lookup(dotted_ids, i, copy, flds) ==
    LET field_name == dotted_ids[i]
    IN IF field_name \notin DOMAIN copy THEN [k |-> "err", v |-> ErrV("Not field" \o field_name)]
       ELSE IF i = Len(dotted_ids) THEN [k |-> "ok", v |-> copy[field_name]]
       ELSE IF copy[field_name].t # "Instance" THEN [k |-> "err", v |-> ErrV("This isn't object")]
       ELSE Lookup(dotted_ids, i + 1, FieldsOf(flds, copy[field_name].id), flds)

RECURSIVE Execute(_, _, _, _, _)
RECURSIVE PrintObject(_, _, _)
RECURSIVE Call(_, _, _, _, _)

\* the closure of ClassInstance::Call: the formal parameters, then self
RECURSIVE BindParams(_, _, _, _)
BindParams(cl, formal_params, actual_args, i) ==
    IF i > Len(actual_args) THEN cl
    ELSE BindParams(Emplace(cl, formal_params[i], actual_args[i]), formal_params, actual_args, i + 1)

\* the local Closure of ClassInstance::Call comes to be: the holders emplaced
\* under the formal parameters are copies of the arguments' (a name that
\* occurs twice keeps the first)
Enter(st, formal_params) ==
    LET frame == st.frames + 1
        kept == {i \in 1..Len(formal_params) :
                    /\ i <= Len(st.args)
                    /\ st.args[i] # 0
                    /\ \A j \in 1..(i - 1) : formal_params[j] # formal_params[i]}
    IN [st EXCEPT !.frames = frame, !.frame = frame,
                  !.own = @ \cup {[loc |-> ClosureLoc(frame, formal_params[i]), id |-> st.args[i]] : i \in kept}]

\* the local Closure of ClassInstance::Call is destroyed with its holders
Leave(st, caller) == [st EXCEPT !.own = {e \in @ : e.loc.frame # st.frame}, !.frame = caller]

\* ClassInstance::Call without the test of HasMethod
CallAnyArity(ct, self, method, actual_args, st) ==
    LET found == GetMethod(ct, self.cls, method)
    IN IF found.found
       THEN LET r == Execute(ct, found.m.body, <<found.cls, found.idx>>,
                             Emplace(EmptyClosure, "self", self), st)
            IN [k |-> r.k, v |-> r.v, st |-> r.st]
       ELSE [k |-> "err", v |-> ErrV("No method " \o method), st |-> st]

\* ClassInstance::Call: [k, v, st]
Call(ct, self, method, actual_args, st) ==
    IF HasMethod(ct, self.cls, method, Len(actual_args))
    THEN LET found == GetMethod(ct, self.cls, method)
             params == BindParams(EmptyClosure, found.m.formal_params, actual_args, 1)
             cl == Emplace(params, "self", self)
             r == Execute(ct, found.m.body, <<found.cls, found.idx>>, cl, Enter(st, found.m.formal_params))
         IN [k |-> r.k, v |-> r.v, st |-> Leave(r.st, st.frame)]
    ELSE [k |-> "err", v |-> ErrV("No method " \o method), st |-> st]

\* Object::Print of the object v refers to: [k, v, st]. An instance without
\* __str__ prints its address, written "@" here.
PrintObject(ct, v, st) ==
    CASE v.t = "Number" -> [k |-> "ok", v |-> NoneV, st |-> Write(st, ToString(v.v))]
      [] v.t = "String" -> [k |-> "ok", v |-> NoneV, st |-> Write(st, v.v)]
      [] v.t = "Bool" -> [k |-> "ok", v |-> NoneV, st |-> Write(st, IF v.v THEN "True" ELSE "False")]
      [] v.t = "Class" -> [k |-> "ok", v |-> NoneV, st |-> Write(st, "Class " \o v.name)]
      [] v.t = "Instance" ->
            IF HasMethod(ct, v.cls, STR_METHOD, 0)
            THEN LET r == Call(ct, v, STR_METHOD, <<>>, st)
                 IN IF r.k # "ok" THEN r
                    ELSE IF r.v.t = "None" THEN [k |-> "crash", v |-> NoneV, st |-> r.st]
                    ELSE PrintObject(ct, r.v, r.st)
            ELSE [k |-> "ok", v |-> NoneV, st |-> Write(st, "@")]

\* the arguments of a call from position i on, left to right: [k, v, vals, cl, st]
RECURSIVE ExecuteArgs(_, _, _, _, _, _, _)
ExecuteArgs(ct, args, i, path, cl, st, vals) ==
    IF i > Len(args)
    THEN [k |-> "ok", v |-> NoneV, vals |-> vals, cl |-> cl, st |-> IF i = 1 THEN Handed(st, <<>>) ELSE st]
    ELSE LET r == Execute(ct, args[i], Append(path, i), cl, st)
         IN IF r.k # "ok" THEN [k |-> r.k, v |-> r.v, vals |-> vals, cl |-> r.cl, st |-> r.st]
            ELSE ExecuteArgs(ct, args, i + 1, path, r.cl,
                             Handed(r.st, Append(IF i = 1 THEN <<>> ELSE st.args, r.st.ret)),
                             Append(vals, r.v))

\* VariableValue::Execute
VariableValueExecute(ct, node, path, cl, st) ==
    LET r == Lookup(node.ids, 1, cl, st.fields)
        n == Len(node.ids)
        \* where the holder returned was found: in the closure, or in the
        \* fields of the instance the segments before the last lead to
        loc == IF n = 1 THEN ClosureLoc(st.frame, node.ids[1])
               ELSE FieldLoc(Lookup(SubSeq(node.ids, 1, n - 1), 1, cl, st.fields).v.id, node.ids[n])
    IN IF r.k # "ok" THEN R(r.k, r.v, cl, st)
       ELSE R("ok", r.v, cl, [st EXCEPT !.ret = OwnerAt(st, loc)])

\* Assignment::Execute
AssignmentExecute(ct, node, path, cl, st) ==
    LET r == Execute(ct, node.rv, Append(path, 1), cl, st)
    IN IF r.k # "ok" THEN r
       ELSE R("ok", r.v, Put(r.cl, node.var, r.v), Store(r.st, ClosureLoc(r.st.frame, node.var)))

\* FieldAssignment::Execute evaluating rv before it looks at the object
FieldAssignmentExecuteRhsFirst(ct, node, path, cl, st) ==
    LET r == Execute(ct, node.rv, Append(path, 1), cl, st)
        o == Execute(ct, [op |-> "VariableValue", ids |-> node.obj], Append(path, 0), r.cl, r.st)
    IN IF r.k # "ok" THEN r
       ELSE IF o.k # "ok" THEN o
       ELSE IF o.v.t # "Instance" THEN R("ok", NoneV, o.cl, o.st)
       ELSE R("ok", r.v, o.cl,
              [o.st EXCEPT !.fields = Put(@, o.v.id, Put(FieldsOf(@, o.v.id), node.field, r.v))])

\* FieldAssignment::Execute
FieldAssignmentExecute(ct, node, path, cl, st) ==
    LET o == Execute(ct, [op |-> "VariableValue", ids |-> node.obj], Append(path, 0), cl, st)
    IN IF o.k # "ok" THEN o
       ELSE IF o.v.t # "Instance" THEN R("ok", NoneV, o.cl, Shared(o.st))
       ELSE LET r == Execute(ct, node.rv, Append(path, 1), o.cl, o.st)
            IN IF r.k # "ok" THEN r
               ELSE R("ok", r.v, r.cl,
                      [Store(r.st, FieldLoc(o.v.id, node.field))
                          EXCEPT !.fields = Put(@, o.v.id,
                                                Put(FieldsOf(@, o.v.id), node.field, r.v))])

\* ptr_obj->Print(os, context) in Print::Execute and Stringify::Execute when
\* ptr_obj was taken by Get() from the holder Execute returned and that
\* holder, destroyed at the end of its statement, was the last owner: the
\* object is read after its release. What follows is not defined: the
\* result "ub" ends the execution here, v is what the object held, and
\* "released" records the read.
ReadReleased(r, path, op) == R("ub", r.v, r.cl, Log(r.st, "released", path, op, r.v))

\* Print::Execute, its loop from argument i on
RECURSIVE PrintExecute(_, _, _, _, _, _)
PrintExecute(ct, args, i, path, cl, st) ==
    IF i > Len(args) THEN R("ok", NoneV, cl, Shared(Write(st, "\n")))
    ELSE LET r == Execute(ct, args[i], Append(path, i), cl, st)
         IN IF r.k # "ok" THEN r
            ELSE IF r.v.t # "None" /\ Released(r.st) THEN ReadReleased(r, Append(path, i), "Print")
            ELSE LET p == IF r.v.t = "None"
                          THEN [k |-> "ok", v |-> NoneV, st |-> Write(r.st, "None")]
                          ELSE PrintObject(ct, r.v, r.st)
                 IN IF p.k # "ok" THEN R(p.k, p.v, r.cl, p.st)
                    ELSE PrintExecute(ct, args, i + 1, path, r.cl,
                                      IF i # Len(args) THEN Write(p.st, " ") ELSE p.st)

\* MethodCall::Execute running the method body in the closure of the caller,
\* with the parameters and self added to it
MethodCallExecuteInCallerClosure(ct, node, path, cl, st) ==
    LET o == Execute(ct, node.obj, Append(path, 0), cl, st)
    IN IF o.k # "ok" THEN o
       ELSE IF o.v.t # "Instance" THEN R("ok", NoneV, o.cl, o.st)
       ELSE LET a == ExecuteArgs(ct, node.args, 1, path, o.cl, o.st, <<>>)
                found == GetMethod(ct, o.v.cls, node.method)
            IN IF a.k # "ok" THEN R(a.k, a.v, a.cl, a.st)
               ELSE IF ~HasMethod(ct, o.v.cls, node.method, Len(a.vals))
               THEN R("err", ErrV("No method " \o node.method), a.cl, a.st)
               ELSE Execute(ct, found.m.body, <<found.cls, found.idx>>,
                            Put(BindParams(a.cl, found.m.formal_params, a.vals, 1), "self", o.v), a.st)

\* MethodCall::Execute
MethodCallExecute(ct, node, path, cl, st) ==
    LET o == Execute(ct, node.obj, Append(path, 0), cl, st)
    IN IF o.k # "ok" THEN o
       ELSE IF o.v.t # "Instance" THEN R("ok", NoneV, o.cl, Shared(o.st))
       ELSE LET a == ExecuteArgs(ct, node.args, 1, path, o.cl, o.st, <<>>)
            IN IF a.k # "ok" THEN R(a.k, a.v, a.cl, a.st)
               ELSE LET c == Call(ct, o.v, node.method, a.vals, a.st)
                    IN R(c.k, c.v, a.cl, c.st)

\* NewInstance::Execute. The instance is the member cls_ of the node, which
\* ObjectHolder::Share hands out without owning it: its identity is the
\* node's, and "new" records the fields it has when it is handed out.
NewInstanceExecute(ct, node, path, cl, st) ==
    LET cls_ == Inst(path, node.cls)
    IN IF HasMethod(ct, node.cls, INIT_METHOD, Len(node.args))
       THEN LET a == ExecuteArgs(ct, node.args, 1, path, cl, st, <<>>)
            IN IF a.k # "ok" THEN R(a.k, a.v, a.cl, a.st)
               ELSE LET c == Call(ct, cls_, INIT_METHOD, a.vals, a.st)
                    IN IF c.k # "ok" THEN R(c.k, c.v, a.cl, c.st)
                       ELSE R("ok", cls_, a.cl, Shared(Log(c.st, "new", path, "NewInstance", cls_)))
       ELSE R("ok", cls_, cl, Shared(Log(st, "new", path, "NewInstance", cls_)))

ADD_METHOD == "__add__"

\* Add::Execute with rhs_ executed before lhs_
AddExecuteRhsFirst(ct, node, path, cl, st) ==
    LET r == Execute(ct, node.rhs, Append(path, 2), cl, st)
    IN IF r.k # "ok" THEN r
       ELSE LET l == Execute(ct, node.lhs, Append(path, 1), r.cl, r.st)
            IN IF l.k # "ok" THEN l
               ELSE IF l.v.t = "Number" /\ r.v.t = "Number" THEN R("ok", Num(l.v.v + r.v.v), l.cl, l.st)
               ELSE IF l.v.t = "String" /\ r.v.t = "String" THEN R("ok", Str(l.v.v \o r.v.v), l.cl, l.st)
               ELSE IF l.v.t = "Instance"
                    THEN LET c == Call(ct, l.v, ADD_METHOD, <<r.v>>, l.st)
                         IN R(c.k, c.v, l.cl, c.st)
               ELSE R("err", ErrV("The operator is not overloaded +"), l.cl, l.st)

\* Add::Execute
AddExecute(ct, node, path, cl, st) ==
    LET l == Execute(ct, node.lhs, Append(path, 1), cl, st)
    IN IF l.k # "ok" THEN l
       ELSE LET r == Execute(ct, node.rhs, Append(path, 2), l.cl, l.st)
            IN IF r.k # "ok" THEN r
               ELSE IF l.v.t = "Number" /\ r.v.t = "Number" THEN R("ok", Num(l.v.v + r.v.v), r.cl, Own(r.st))
               ELSE IF l.v.t = "String" /\ r.v.t = "String" THEN R("ok", Str(l.v.v \o r.v.v), r.cl, Own(r.st))
               ELSE IF l.v.t = "Instance"
                    THEN LET c == Call(ct, l.v, ADD_METHOD, <<r.v>>, Handed(r.st, <<r.st.ret>>))
                         IN R(c.k, c.v, r.cl, c.st)
               ELSE R("err", ErrV("The operator is not overloaded +"), r.cl, r.st)

\* Sub::Execute
SubExecute(ct, node, path, cl, st) ==
    LET l == Execute(ct, node.lhs, Append(path, 1), cl, st)
    IN IF l.k # "ok" THEN l
       ELSE LET r == Execute(ct, node.rhs, Append(path, 2), l.cl, l.st)
            IN IF r.k # "ok" THEN r
               ELSE IF l.v.t = "Number" /\ r.v.t = "Number" THEN R("ok", Num(l.v.v - r.v.v), r.cl, Own(r.st))
               ELSE R("err", ErrV("The operator is not overloaded -"), r.cl, r.st)

\* Mult::Execute
MultExecute(ct, node, path, cl, st) ==
    LET l == Execute(ct, node.lhs, Append(path, 1), cl, st)
    IN IF l.k # "ok" THEN l
       ELSE LET r == Execute(ct, node.rhs, Append(path, 2), l.cl, l.st)
            IN IF r.k # "ok" THEN r
               ELSE IF l.v.t = "Number" /\ r.v.t = "Number" THEN R("ok", Num(l.v.v * r.v.v), r.cl, Own(r.st))
               ELSE R("err", ErrV("The operator is not overloaded *"), r.cl, r.st)

Abs(x) == IF x < 0 THEN -x ELSE x

\* a quotient rounded toward minus infinity
FloorDiv(a, b) == IF b > 0 THEN a \div b ELSE (-a) \div (-b)

\* operator / of two int, b not 0: the quotient with its fraction discarded
IntDiv(a, b) == IF (a < 0) = (b < 0) THEN Abs(a) \div Abs(b) ELSE -(Abs(a) \div Abs(b))

\* Div::Execute
DivExecute(ct, node, path, cl, st) ==
    LET l == Execute(ct, node.lhs, Append(path, 1), cl, st)
    IN IF l.k # "ok" THEN l
       ELSE LET r == Execute(ct, node.rhs, Append(path, 2), l.cl, l.st)
            IN IF r.k # "ok" THEN r
               ELSE IF l.v.t = "Number" /\ r.v.t = "Number"
                    THEN IF r.v.v # 0 THEN R("ok", Num(IntDiv(l.v.v, r.v.v)), r.cl, Own(r.st))
                         ELSE R("err", ErrV("The denominator is zero"), r.cl, r.st)
               ELSE R("err", ErrV("The operator is not overloaded /"), r.cl, r.st)

\* Or::Execute with both operands always executed
OrExecuteEager(ct, node, path, cl, st) ==
    LET l == Execute(ct, node.lhs, Append(path, 1), cl, st)
    IN IF l.k # "ok" THEN l
       ELSE LET r == Execute(ct, node.rhs, Append(path, 2), l.cl, l.st)
            IN IF r.k # "ok" THEN r
               ELSE R("ok", BoolV(IsTrue(l.v) \/ IsTrue(r.v)), r.cl, r.st)

\* Or::Execute
OrExecute(ct, node, path, cl, st) ==
    LET l == Execute(ct, node.lhs, Append(path, 1), cl, st)
    IN IF l.k # "ok" THEN l
       ELSE IF ~IsTrue(l.v)
            THEN LET r == Execute(ct, node.rhs, Append(path, 2), l.cl, l.st)
                 IN IF r.k # "ok" THEN r
                    ELSE R("ok", BoolV(IsTrue(r.v)), r.cl, Own(r.st))
            ELSE R("ok", BoolV(TRUE), l.cl, Own(l.st))

\* And::Execute
AndExecute(ct, node, path, cl, st) ==
    LET l == Execute(ct, node.lhs, Append(path, 1), cl, st)
    IN IF l.k # "ok" THEN l
       ELSE IF IsTrue(l.v)
            THEN LET r == Execute(ct, node.rhs, Append(path, 2), l.cl, l.st)
                 IN IF r.k # "ok" THEN r
                    ELSE R("ok", BoolV(IsTrue(r.v)), r.cl, Own(r.st))
            ELSE R("ok", BoolV(FALSE), l.cl, Own(l.st))

\* Not::Execute
NotExecute(ct, node, path, cl, st) ==
    LET r == Execute(ct, node.arg, Append(path, 1), cl, st)
    IN IF r.k # "ok" THEN r
       ELSE R("ok", BoolV(~IsTrue(r.v)), r.cl, Own(r.st))

\* Stringify::Execute. Print writes the text into a stream of its own: it is
\* the last thing Object::Print writes, after whatever a __str__ body wrote
\* to the output of the context.
StringifyExecute(ct, node, path, cl, st) ==
    LET r == Execute(ct, node.arg, Append(path, 1), cl, st)
    IN IF r.k # "ok" THEN r
       ELSE IF r.v.t = "None" THEN R("ok", Str("None"), r.cl, Own(r.st))
       ELSE IF Released(r.st) THEN ReadReleased(r, Append(path, 1), "Stringify")
       ELSE \* bound once: the printing of the object
            CHOOSE s \in {IF p.k # "ok" THEN R(p.k, p.v, r.cl, p.st)
                          ELSE R("ok", Str(p.st.out[Len(p.st.out)]), r.cl,
                                 Own([p.st EXCEPT !.out = SubSeq(@, 1, Len(@) - 1)]))
                          : p \in {PrintObject(ct, r.v, r.st)}} : TRUE

\* Compound::Execute, its loop from child i on
RECURSIVE CompoundExecute(_, _, _, _, _, _)
CompoundExecute(ct, args, i, path, cl, st) ==
    IF i > Len(args) THEN R("ok", NoneV, cl, Shared(st))
    ELSE LET r == Execute(ct, args[i], Append(path, i), cl, st)
         IN IF r.k # "ok" THEN r
            ELSE CompoundExecute(ct, args, i + 1, path, r.cl, r.st)

\* MethodBody::Execute without the catch clause
MethodBodyExecuteNoCatch(ct, node, path, cl, st) ==
    LET r == Execute(ct, node.body, Append(path, 1), cl, st)
    IN IF r.k = "ok" THEN R("ok", NoneV, r.cl, Log(r.st, "end", path, "MethodBody", NoneV))
       ELSE r

\* MethodBody::Execute with a handler that takes an error for a result too
MethodBodyExecuteCatchAll(ct, node, path, cl, st) ==
    LET r == Execute(ct, node.body, Append(path, 1), cl, st)
    IN IF r.k \in {"ret", "err"} THEN R("ok", r.v, r.cl, Log(r.st, "caught", path, "MethodBody", r.v))
       ELSE IF r.k = "ok" THEN R("ok", NoneV, r.cl, Log(r.st, "end", path, "MethodBody", NoneV))
       ELSE r

\* MethodBody::Execute: "caught" records the value taken from the unwind,
\* "end" that the body ran to its end
MethodBodyExecute(ct, node, path, cl, st) ==
    LET r == Execute(ct, node.body, Append(path, 1), cl, st)
    IN IF r.k = "ret" THEN R("ok", r.v, r.cl, Log(r.st, "caught", path, "MethodBody", r.v))
       ELSE IF r.k = "ok" THEN R("ok", NoneV, r.cl, Shared(Log(r.st, "end", path, "MethodBody", NoneV)))
       ELSE r

\* Return::Execute: "throw" records the value thrown
ReturnExecute(ct, node, path, cl, st) ==
    LET r == Execute(ct, node.stmt, Append(path, 1), cl, st)
    IN IF r.k # "ok" THEN r
       ELSE R("ret", r.v, r.cl, Log(r.st, "throw", path, "Return", r.v))

\* ClassDefinition::Execute
ClassDefinitionExecute(ct, node, path, cl, st) ==
    R("ok", ClassV(node.name), Put(cl, node.name, ClassV(node.name)), Shared(st))

\* IfElse::Execute
IfElseExecute(ct, node, path, cl, st) ==
    LET c == Execute(ct, node.cond, Append(path, 1), cl, st)
    IN IF c.k # "ok" THEN c
       ELSE IF IsTrue(c.v) THEN Execute(ct, node.then, Append(path, 2), c.cl, c.st)
       ELSE IF node.else # Absent THEN Execute(ct, node.else, Append(path, 3), c.cl, c.st)
       ELSE R("ok", NoneV, c.cl, Shared(c.st))

\* Statement::Execute, dispatched on the class of the node; "exec" records
\* that the node at path started to execute
Execute(ct, node, path, cl, st0) ==
    LET st == Log(st0, "exec", path, node.op, NoneV)
    IN CASE node.op = "Const" -> R("ok", node.v, cl, Shared(st))
         [] node.op = "None" -> R("ok", NoneV, cl, Shared(st))
         [] node.op = "VariableValue" -> VariableValueExecute(ct, node, path, cl, st)
         [] node.op = "Assignment" -> AssignmentExecute(ct, node, path, cl, st)
         [] node.op = "FieldAssignment" -> FieldAssignmentExecute(ct, node, path, cl, st)
         [] node.op = "Print" -> PrintExecute(ct, node.args, 1, path, cl, st)
         [] node.op = "MethodCall" -> MethodCallExecute(ct, node, path, cl, st)
         [] node.op = "NewInstance" -> NewInstanceExecute(ct, node, path, cl, st)
         [] node.op = "Add" -> AddExecute(ct, node, path, cl, st)
         [] node.op = "Sub" -> SubExecute(ct, node, path, cl, st)
         [] node.op = "Mult" -> MultExecute(ct, node, path, cl, st)
         [] node.op = "Div" -> DivExecute(ct, node, path, cl, st)
         [] node.op = "Or" -> OrExecute(ct, node, path, cl, st)
         [] node.op = "And" -> AndExecute(ct, node, path, cl, st)
         [] node.op = "Not" -> NotExecute(ct, node, path, cl, st)
         [] node.op = "Stringify" -> StringifyExecute(ct, node, path, cl, st)
         [] node.op = "Compound" -> CompoundExecute(ct, node.args, 1, path, cl, st)
         [] node.op = "MethodBody" -> MethodBodyExecute(ct, node, path, cl, st)
         [] node.op = "Return" -> ReturnExecute(ct, node, path, cl, st)
         [] node.op = "ClassDefinition" -> ClassDefinitionExecute(ct, node, path, cl, st)
         [] node.op = "IfElse" -> IfElseExecute(ct, node, path, cl, st)

\* ------------------------------------------------------------------
\* Predicates of runtime.cpp: each returns [k |-> "ok", b, st] with the
\* boolean b, or [k, v, st] with what was thrown
\* ------------------------------------------------------------------
True(st) == [k |-> "ok", b |-> TRUE, st |-> st]
Bool(b, st) == [k |-> "ok", b |-> b, st |-> st]
Throw(msg, st) == [k |-> "err", v |-> ErrV(msg), st |-> st]
Negate(r) == IF r.k = "ok" THEN [r EXCEPT !.b = ~@] ELSE r

EQ_METHOD == "__eq__"
LT_METHOD == "__lt__"

\* std::string's operator< on the strings the programs use
StringOrder == <<"", "a", "ab", "b">>
StringRank(x) == CHOOSE i \in 1..Len(StringOrder) : StringOrder[i] = x
StringLess(x, y) == StringRank(x) < StringRank(y)

\* COMPARE_FUNC handing the method lhs itself instead of rhs
CompareFuncOfLhs(ct, lhs, rhs, st, func) ==
    LET r == Call(ct, lhs, func, <<lhs>>, st)
    IN IF r.k # "ok" THEN r ELSE [k |-> "ok", b |-> IsTrue(r.v), st |-> r.st]

\* the macro COMPARE_FUNC once lhs is known to be an instance with func(1)
CompareFunc(ct, lhs, rhs, st, func) ==
    LET r == Call(ct, lhs, func, <<rhs>>, st)
    IN IF r.k # "ok" THEN r ELSE Bool(IsTrue(r.v), r.st)

\* runtime::Equal
Equal(ct, lhs, rhs, st) ==
    IF lhs.t = "None" /\ rhs.t = "None" THEN True(st)
    ELSE IF lhs.t = "Number" /\ rhs.t = "Number" THEN Bool(lhs.v = rhs.v, st)
    ELSE IF lhs.t = "String" /\ rhs.t = "String" THEN Bool(lhs.v = rhs.v, st)
    ELSE IF lhs.t = "Bool" /\ rhs.t = "Bool" THEN Bool(lhs.v = rhs.v, st)
    ELSE IF lhs.t = "Instance" /\ HasMethod(ct, lhs.cls, EQ_METHOD, 1)
         THEN CompareFunc(ct, lhs, rhs, st, EQ_METHOD)
    ELSE Throw("Cannot compare objects for equality", st)

\* runtime::Less that answers false for two empty operands
LessNoneIsFalse(ct, lhs, rhs, st) ==
    IF lhs.t = "None" /\ rhs.t = "None" THEN Bool(FALSE, st)
    ELSE Throw("Cannot compare objects for less", st)

\* runtime::Less. For two empty operands the code builds a runtime_error
\* without throwing it and goes on to the comparisons below.
Less(ct, lhs, rhs, st) ==
    IF lhs.t = "Number" /\ rhs.t = "Number" THEN Bool(lhs.v < rhs.v, st)
    ELSE IF lhs.t = "String" /\ rhs.t = "String" THEN Bool(StringLess(lhs.v, rhs.v), st)
    ELSE IF lhs.t = "Bool" /\ rhs.t = "Bool" THEN Bool(~lhs.v /\ rhs.v, st)
    ELSE IF lhs.t = "Instance" /\ HasMethod(ct, lhs.cls, LT_METHOD, 1)
         THEN CompareFunc(ct, lhs, rhs, st, LT_METHOD)
    ELSE Throw("Cannot compare objects for less", st)

\* runtime::NotEqual
NotEqual(ct, lhs, rhs, st) ==
    CHOOSE r \in {Negate(e) : e \in {Equal(ct, lhs, rhs, st)}} : TRUE

\* runtime::LessOrEqual: Equal is called only when Less has answered false
LessOrEqual(ct, lhs, rhs, st) ==
    CHOOSE r \in {IF l.k # "ok" \/ l.b THEN l ELSE Equal(ct, lhs, rhs, l.st) :
                     l \in {Less(ct, lhs, rhs, st)}} : TRUE

\* runtime::Greater
Greater(ct, lhs, rhs, st) ==
    CHOOSE r \in {Negate(le) : le \in {LessOrEqual(ct, lhs, rhs, st)}} : TRUE

\* runtime::GreaterOrEqual
GreaterOrEqual(ct, lhs, rhs, st) ==
    CHOOSE r \in {Negate(l) : l \in {Less(ct, lhs, rhs, st)}} : TRUE

\* the comparator a Comparison node holds
Comparator(cmp, ct, lhs, rhs, st) ==
    CASE cmp = "Equal" -> Equal(ct, lhs, rhs, st)
      [] cmp = "NotEqual" -> NotEqual(ct, lhs, rhs, st)
      [] cmp = "Less" -> Less(ct, lhs, rhs, st)
      [] cmp = "Greater" -> Greater(ct, lhs, rhs, st)
      [] cmp = "LessOrEqual" -> LessOrEqual(ct, lhs, rhs, st)
      [] cmp = "GreaterOrEqual" -> GreaterOrEqual(ct, lhs, rhs, st)

\* ------------------------------------------------------------------
\* AST nodes
\* ------------------------------------------------------------------
Const(v) == [op |-> "Const", v |-> v]
VariableValue(dotted_ids) == [op |-> "VariableValue", ids |-> dotted_ids]
Assignment(var, rv) == [op |-> "Assignment", var |-> var, rv |-> rv]
FieldAssignment(object, field_name, rv) == [op |-> "FieldAssignment", obj |-> object, field |-> field_name, rv |-> rv]
PrintNode(args) == [op |-> "Print", args |-> args]
MethodCall(object, method, args) == [op |-> "MethodCall", obj |-> object, method |-> method, args |-> args]
NewInstance(class, args) == [op |-> "NewInstance", cls |-> class, args |-> args]
\* Add, Sub, Mult or Div, named by op
BinaryOperation(op, lhs, rhs) == [op |-> op, lhs |-> lhs, rhs |-> rhs]
Or(lhs, rhs) == [op |-> "Or", lhs |-> lhs, rhs |-> rhs]
And(lhs, rhs) == [op |-> "And", lhs |-> lhs, rhs |-> rhs]
Stringify(argument) == [op |-> "Stringify", arg |-> argument]
Not(argument) == [op |-> "Not", arg |-> argument]
Compound(args) == [op |-> "Compound", args |-> args]
MethodBody(body) == [op |-> "MethodBody", body |-> body]
Return(statement) == [op |-> "Return", stmt |-> statement]
IfElse(condition, if_body, else_body) == [op |-> "IfElse", cond |-> condition, then |-> if_body, else |-> else_body]

\* runtime::Method and runtime::Class
Method(name, formal_params, body) == [name |-> name, formal_params |-> formal_params, body |-> body]
Class(name, methods, parent) == [name |-> name, methods |-> methods, parent |-> parent]

\* ------------------------------------------------------------------
\* The evaluator as a state machine: a host program that holds a class table,
\* a global closure and a context, and calls into the runtime
\* ------------------------------------------------------------------

\* the lexer takes no part
LexIdle ==
    /\ pc = "eval"
    /\ nlines = 0
    /\ stream = NoStream
    /\ tokens_ = <<>>
    /\ indent_size_ = 0
    /\ current_token_ = ValTok("Number", 0)
    /\ current_index_ = 0
    /\ yielded = <<>>

\* the context and the instances' fields as Execute takes them
ContextOf(flds, out) == [fields |-> flds, out |-> out, trace |-> <<>>,
                         ret |-> 0, own |-> {}, ids |-> 0, frame |-> 0, frames |-> 0, args |-> <<>>]

Context == ContextOf(fields, output)

\* ---- method resolution and calls -----------------------------------
MaxMethods == 2  \* methods one class declares

MethodNames == {"f", "g"}
ParamLists == {<<>>, <<"x">>}
ArgLists == {<<>>, <<Num(1)>>, <<Num(1), Num(2)>>}

\* the classes of the host program: A, B derived from A, C derived from B
ParentOf == [A |-> NoParent, B |-> "A", C |-> "B"]

\* f with either parameter list, g without parameters; each returns its arity
ArityBody(ps) == MethodBody(Return(Const(Num(Len(ps)))))
DeclaredMethods == {Method("f", ps, ArityBody(ps)) : ps \in ParamLists} \cup {Method("g", <<>>, ArityBody(<<>>))}
MethodLists == UNION {[1..k -> DeclaredMethods] : k \in 0..MaxMethods}

InitDispatch ==
    /\ LexIdle
    /\ classes \in {[c \in DOMAIN ParentOf |-> Class(c, ms[c], ParentOf[c])] : ms \in [DOMAIN ParentOf -> MethodLists]}
    /\ closure = EmptyClosure
    /\ fields = <<>>
    /\ output = <<>>
    /\ last = [op |-> "none"]

\* the host asks a class for a method, once
Resolve ==
    \E c \in DOMAIN classes, name \in MethodNames :
        /\ last.op = "none"
        /\ last' = [op |-> "GetMethod", cls |-> c, name |-> name, res |-> GetMethod(classes, c, name)]
        /\ UNCHANGED <<lexvars, classes, closure, fields, output>>

\* the host calls a method of an instance of class c, once
CallMethod ==
    \E c \in DOMAIN classes, name \in MethodNames, actual_args \in ArgLists :
        LET r == Call(classes, Inst(<<"main", 0>>, c), name, actual_args, Context)
        IN /\ last.op = "none"
           /\ last' = [op |-> "Call", cls |-> c, name |-> name, args |-> actual_args,
                       k |-> r.k, v |-> r.v, trace |-> r.st.trace]
           /\ fields' = r.st.fields
           /\ output' = r.st.out
           /\ UNCHANGED <<lexvars, classes, closure>>

NextDispatch == Resolve \/ CallMethod

SpecDispatch == InitDispatch /\ [][NextDispatch]_vars

\* ---- return from nested statements and nested calls ----------------
MaxNest == 2  \* Compound and IfElse nodes around the innermost statement of outer

NoneNode == [op |-> "None"]
PrintText(text) == PrintNode(<<Const(Str(text))>>)
CallInner == MethodCall(VariableValue(<<"self">>), "inner", <<>>)

\* the innermost statement of a body; outer may call inner there
InnerLeaves == {Return(Const(Num(7))), Return(NoneNode), PrintText("leaf")}
OuterLeaves == InnerLeaves \cup {CallInner, Return(CallInner)}

\* x inside one more Compound or IfElse, with statements before and after it
Wrap(x) == {Compound(<<x, PrintText("after")>>),
            Compound(<<x, Return(Const(Num(9)))>>),
            Compound(<<PrintText("before"), x>>),
            IfElse(Const(BoolV(TRUE)), x, Absent),
            IfElse(Const(BoolV(FALSE)), PrintText("then"), x),
            IfElse(Const(BoolV(FALSE)), x, Absent)}

RECURSIVE Nest(_, _)
Nest(leaves, d) == IF d = 0 THEN leaves
                   ELSE LET inner == Nest(leaves, d - 1)
                        IN inner \cup UNION {Wrap(x) : x \in inner}

\* class K with the methods outer and inner
InitReturn ==
    /\ LexIdle
    /\ \E ob \in Nest(OuterLeaves, MaxNest), ib \in Nest(InnerLeaves, MaxNest - 1) :
          classes = [K |-> Class("K", <<Method("outer", <<>>, MethodBody(ob)),
                                        Method("inner", <<>>, MethodBody(ib))>>, NoParent)]
    /\ closure = EmptyClosure
    /\ fields = <<>>
    /\ output = <<>>
    /\ last = [op |-> "none"]

\* the host calls outer or inner on an instance of K, once
RunMethod ==
    \E name \in {"outer", "inner"} :
        LET r == Call(classes, Inst(<<"main", 0>>, "K"), name, <<>>, Context)
        IN /\ last.op = "none"
           /\ last' = [op |-> "Call", cls |-> "K", name |-> name, args |-> <<>>,
                       k |-> r.k, v |-> r.v, trace |-> r.st.trace]
           /\ fields' = r.st.fields
           /\ output' = r.st.out
           /\ UNCHANGED <<lexvars, classes, closure>>

NextReturn == RunMethod

SpecReturn == InitReturn /\ [][NextReturn]_vars

\* ---- errors inside nested statements and nested calls ---------------

\* statements that fail: an unknown variable, a call of an unknown method
Undefined == VariableValue(<<"nope">>)
CallMissing == MethodCall(VariableValue(<<"self">>), "missing", <<>>)

InnerErrorLeaves == {Undefined, CallMissing, Return(Const(Num(7)))}
OuterErrorLeaves == InnerErrorLeaves \cup {CallInner, Return(Undefined), PrintNode(<<CallInner>>)}

\* class K with the methods outer and inner, either of which may fail
InitError ==
    /\ LexIdle
    /\ \E ob \in Nest(OuterErrorLeaves, MaxNest), ib \in Nest(InnerErrorLeaves, MaxNest - 1) :
          classes = [K |-> Class("K", <<Method("outer", <<>>, MethodBody(ob)),
                                        Method("inner", <<>>, MethodBody(ib))>>, NoParent)]
    /\ closure = EmptyClosure
    /\ fields = <<>>
    /\ output = <<>>
    /\ last = [op |-> "none"]

NextError == RunMethod

SpecError == InitError /\ [][NextError]_vars

\* ---- comparisons ----------------------------------------------------

\* what __eq__ and __lt__ of class E may be: absent, or a method of 0, 1 or
\* 2 parameters that returns a value, returns nothing or fails
CompareBodies ==
    {MethodBody(Return(Const(v))) : v \in {BoolV(TRUE), BoolV(FALSE), Num(0), Str("a")}}
        \cup {MethodBody(NoneNode), MethodBody(Return(Undefined)),
              MethodBody(Return(VariableValue(<<"other">>)))}

CompareMethods(name) ==
    {<<>>} \cup {<<Method(name, <<"other">>, b)>> : b \in CompareBodies}
           \cup {<<Method(name, <<>>, MethodBody(Return(Const(BoolV(TRUE)))))>>,
                 <<Method(name, <<"other", "more">>, MethodBody(Return(Const(BoolV(TRUE)))))>>}

CompareValues ==
    {NoneV, Num(0), Num(1), Num(-1), Str(""), Str("a"), Str("b"), BoolV(FALSE), BoolV(TRUE),
     ClassV("E"), Inst(<<"main", 1>>, "E"), Inst(<<"main", 2>>, "E")}

Comparators == {"Equal", "NotEqual", "Less", "Greater", "LessOrEqual", "GreaterOrEqual"}

InitCompare ==
    /\ LexIdle
    /\ \E eq \in CompareMethods(EQ_METHOD), lt \in CompareMethods(LT_METHOD) :
          classes = [E |-> Class("E", eq \o lt, NoParent)]
    /\ closure = EmptyClosure
    /\ fields = <<>>
    /\ output = <<>>
    /\ last = [op |-> "none"]

\* the host compares two values, once
Compare ==
    /\ last.op = "none"
    /\ \E cmp \in Comparators, lhs \in CompareValues, rhs \in CompareValues :
          \E r \in {Comparator(cmp, classes, lhs, rhs, Context)} :
              /\ last' = [op |-> cmp, lhs |-> lhs, rhs |-> rhs,
                          res |-> [k |-> r.k, x |-> IF r.k = "ok" THEN r.b ELSE r.v],
                          trace |-> r.st.trace]
              /\ fields' = r.st.fields
              /\ output' = r.st.out
              /\ UNCHANGED <<lexvars, classes, closure>>

NextCompare == Compare

SpecCompare == InitCompare /\ [][NextCompare]_vars

\* ---- arithmetic -----------------------------------------------------
MaxOperand == 7  \* magnitude of the Numbers the host computes with

ArithOps == {"Add", "Sub", "Mult", "Div"}

ArithValues ==
    {Num(n) : n \in -MaxOperand..MaxOperand}
        \cup {NoneV, Str(""), Str("a"), Str("b"), BoolV(TRUE), ClassV("V"), Inst(<<"main", 0>>, "V")}

\* operands: a value of every kind, and a statement that fails
ArithOperands == {Const(v) : v \in ArithValues} \cup {Undefined}

\* class V, whose __add__ is absent or any of CompareMethods
InitArith ==
    /\ LexIdle
    /\ \E add \in CompareMethods(ADD_METHOD) : classes = [V |-> Class("V", add, NoParent)]
    /\ closure = EmptyClosure
    /\ fields = <<>>
    /\ output = <<>>
    /\ last = [op |-> "none"]

\* the host executes one Add, Sub, Mult or Div node in the global closure
ExecuteArith ==
    /\ last.op = "none"
    /\ \E op \in ArithOps, lhs \in ArithOperands, rhs \in ArithOperands :
          \E r \in {Execute(classes, BinaryOperation(op, lhs, rhs), <<"main", 1>>, closure, Context)} :
              /\ last' = [op |-> op, lhs |-> lhs, rhs |-> rhs, k |-> r.k, v |-> r.v, trace |-> r.st.trace]
              /\ closure' = r.cl
              /\ fields' = r.st.fields
              /\ output' = r.st.out
              /\ UNCHANGED <<lexvars, classes>>

NextArith == ExecuteArith

SpecArith == InitArith /\ [][NextArith]_vars

\* ---- truth of a value -----------------------------------------------

\* the instance the host tests
TheTested == Inst(<<"main", 0>>, "E")

TruthValues ==
    {Num(n) : n \in -MaxOperand..MaxOperand}
        \cup {NoneV, Str(""), Str("a"), Str("ab"), BoolV(FALSE), BoolV(TRUE), ClassV("E"), TheTested}

\* class E with any of CompareMethods; its instance with or without fields
InitTruth ==
    /\ LexIdle
    /\ \E eq \in CompareMethods(EQ_METHOD) : classes = [E |-> Class("E", eq, NoParent)]
    /\ closure = EmptyClosure
    /\ fields \in {<<>>, [x \in {TheTested.id} |-> [f |-> Num(1)]], [x \in {TheTested.id} |-> [f |-> BoolV(TRUE)]]}
    /\ output = <<>>
    /\ last = [op |-> "none"]

\* the host asks for the truth of a value, once
CallIsTrue ==
    /\ last.op = "none"
    /\ \E v \in TruthValues :
          /\ last' = [op |-> "IsTrue", v |-> v, res |-> IsTrue(v)]
          /\ UNCHANGED <<lexvars, classes, closure, fields, output>>

NextTruth == CallIsTrue

SpecTruth == InitTruth /\ [][NextTruth]_vars

\* ---- self inside a method body ---------------------------------------

\* the instance the host calls set on, and another instance of the class
TheReceiver == Inst(<<"main", 0>>, "S")
TheOther == Inst(<<"main", 1>>, "S")

\* parameter lists of set; a parameter may be named self
SelfParamLists == {<<>>, <<"x">>, <<"self">>, <<"x", "self">>, <<"self", "x">>}

\* the body of set: self.x = v, return self
SetBody(v) == MethodBody(Compound(<<FieldAssignment(<<"self">>, "x", Const(Num(v))),
                                    Return(VariableValue(<<"self">>))>>))

SelfArgs == {Const(Num(5)), NoneNode, VariableValue(<<"o">>)}
SelfArgLists == UNION {[1..n -> SelfArgs] : n \in 0..2}

\* the globals r and o hold the two instances; r.x may exist already
InitSelf ==
    /\ LexIdle
    /\ \E ps \in SelfParamLists, v \in {1, 2} :
          classes = [S |-> Class("S", <<Method("set", ps, SetBody(v))>>, NoParent)]
    /\ closure = [r |-> TheReceiver, o |-> TheOther]
    /\ fields \in {<<>>, [i \in {TheReceiver.id} |-> [x |-> Num(0)]]}
    /\ output = <<>>
    /\ last = [op |-> "none"]

\* the host executes r.set(args), once
CallSet ==
    /\ last.op = "none"
    /\ \E args \in SelfArgLists :
          \E r \in {Execute(classes, MethodCall(VariableValue(<<"r">>), "set", args), <<"main", 1>>, closure, Context)} :
              /\ last' = [op |-> "Call", args |-> args, k |-> r.k, v |-> r.v]
              /\ closure' = r.cl
              /\ fields' = r.st.fields
              /\ output' = r.st.out
              /\ UNCHANGED <<lexvars, classes>>

\* after the call the host executes r.x
ReadField ==
    /\ last.op = "Call"
    /\ \E r \in {Execute(classes, VariableValue(<<"r", "x">>), <<"main", 2>>, closure, Context)} :
          /\ last' = [op |-> "VariableValue", call |-> last, k |-> r.k, v |-> r.v]
          /\ closure' = r.cl
          /\ fields' = r.st.fields
          /\ output' = r.st.out
          /\ UNCHANGED <<lexvars, classes>>

NextSelf == CallSet \/ ReadField

SpecSelf == InitSelf /\ [][NextSelf]_vars

\* ---- short-circuit operators ----------------------------------------

\* the instance the global variable o holds
TheObject == Inst(<<"main", 0>>, "P")

\* class P: m() prints and returns True
LogicClasses ==
    [P |-> Class("P", <<Method("m", <<>>, MethodBody(Compound(<<PrintText("m"), Return(Const(BoolV(TRUE)))>>)))>>, NoParent)]

OperandValues == {Num(0), Num(1), Str(""), Str("a"), BoolV(FALSE), BoolV(TRUE), ClassV("P")}

\* left operands: values of every kind, and statements with an effect
LeftOperands ==
    {Const(v) : v \in OperandValues}
        \cup {NoneNode, VariableValue(<<"o">>), PrintText("lhs")}
        \cup {Assignment("l", Const(v)) : v \in {Num(0), Str("a")}}

\* right operands: each changes the closure, a field or the output
RightOperands ==
    {Assignment("r", Const(v)) : v \in {Num(0), Num(1), Str(""), ClassV("P")}}
        \cup {PrintText("rhs"),
              FieldAssignment(<<"o">>, "f", Const(Num(1))),
              MethodCall(VariableValue(<<"o">>), "m", <<>>),
              And(Const(BoolV(TRUE)), Assignment("r", Const(Str("a")))),
              Or(Assignment("r", Const(Num(0))), PrintText("rhs"))}

InitLogic ==
    /\ LexIdle
    /\ classes = LogicClasses
    /\ closure \in {[o |-> TheObject], [o |-> TheObject, r |-> Str("old")]}
    /\ fields \in {<<>>, [x \in {TheObject.id} |-> [f |-> Num(0)]]}
    /\ output = <<>>
    /\ last = [op |-> "none"]

\* the host executes one And or Or node in the global closure
ExecuteLogic ==
    \E op \in {"And", "Or"}, lhs \in LeftOperands, rhs \in RightOperands :
        LET node == IF op = "And" THEN And(lhs, rhs) ELSE Or(lhs, rhs)
            r == Execute(classes, node, <<"main", 1>>, closure, Context)
        IN /\ last.op = "none"
           /\ last' = [op |-> op, node |-> node, k |-> r.k, v |-> r.v, trace |-> r.st.trace,
                       pre |-> [cl |-> closure, fields |-> fields, out |-> output]]
           /\ closure' = r.cl
           /\ fields' = r.st.fields
           /\ output' = r.st.out
           /\ UNCHANGED <<lexvars, classes>>

NextLogic == ExecuteLogic

SpecLogic == InitLogic /\ [][NextLogic]_vars

\* ---- instances handed out by a NewInstance node -----------------------
MaxNew == 3  \* executions of the NewInstance node

\* class P without __init__, with __init__() or with __init__(x), which store self.f
NewClasses ==
    {[P |-> Class("P", ms, NoParent)] :
        ms \in {<<>>,
                <<Method(INIT_METHOD, <<>>, MethodBody(FieldAssignment(<<"self">>, "f", Const(Num(1)))))>>,
                <<Method(INIT_METHOD, <<"x">>, MethodBody(FieldAssignment(<<"self">>, "f", VariableValue(<<"x">>))))>>}}

\* the one NewInstance node of the host program: P() or P(5)
TheNewNode(ct) == NewInstance("P", IF HasMethod(ct, "P", INIT_METHOD, 1) THEN <<Const(Num(5))>> ELSE <<>>)

InitNew ==
    /\ LexIdle
    /\ classes \in NewClasses
    /\ closure = EmptyClosure
    /\ fields = <<>>
    /\ output = <<>>
    /\ last = [op |-> "none", news |-> <<>>]

\* the host executes var = P(...), always the same node; news records the
\* instance returned and the fields it had when the execution began
ExecuteNew ==
    \E var \in {"a", "b"} :
        LET r == Execute(classes, Assignment(var, TheNewNode(classes)), <<"main", 1>>, closure, Context)
        IN /\ Len(last.news) < MaxNew
           /\ r.k = "ok"
           /\ last' = [op |-> "NewInstance",
                       news |-> Append(last.news, [v |-> r.v, fields |-> FieldsOf(fields, r.v.id)])]
           /\ closure' = r.cl
           /\ fields' = r.st.fields
           /\ output' = r.st.out
           /\ UNCHANGED <<lexvars, classes>>

\* the host executes var.field = value
SetField ==
    \E var \in DOMAIN closure, field_name \in {"f", "g"}, value \in {Num(1), Num(2)} :
        LET r == Execute(classes, FieldAssignment(<<var>>, field_name, Const(value)), <<"main", 2>>, closure, Context)
        IN /\ r.k = "ok"
           /\ last' = [last EXCEPT !.op = "FieldAssignment"]
           /\ closure' = r.cl
           /\ fields' = r.st.fields
           /\ output' = r.st.out
           /\ UNCHANGED <<lexvars, classes>>

NextNew == ExecuteNew \/ SetField

SpecNew == InitNew /\ [][NextNew]_vars

\* ------------------------------------------------------------------
\* Properties of the lexer
\* ------------------------------------------------------------------
TypeCount(toks, t) == Cardinality({i \in 1..Len(toks) : toks[i].type = t})

Prefix(toks, n) == SubSeq(toks, 1, n)

\* the number of Dedent tokens that end toks[1..n]
RECURSIVE TrailingDedents(_, _)
TrailingDedents(toks, n) ==
    IF n >= 1 /\ toks[n].type = "Dedent" THEN 1 + TrailingDedents(toks, n - 1) ELSE 0

\* C5: in every prefix of the emitted stream the Dedent tokens never outnumber
\* the Indent tokens; when the lexer has finished the two counts are equal,
\* indent_size_ is 0 and the stream ends in Eof.
C5_IndentDedentBalanced ==
    /\ \A n \in 0..Len(tokens_) :
          TypeCount(Prefix(tokens_, n), "Dedent") <= TypeCount(Prefix(tokens_, n), "Indent")
    /\ pc = "done" =>
          /\ TypeCount(tokens_, "Dedent") = TypeCount(tokens_, "Indent")
          /\ indent_size_ = 0
          /\ tokens_[Len(tokens_)].type = "Eof"

\* a finished stream with two Indent tokens and a Dedent in the middle of it
C5_Witness ==
    /\ pc = "done"
    /\ TypeCount(tokens_, "Indent") >= 2
    /\ \E i \in 1..(Len(tokens_) - 1) :
          /\ tokens_[i].type = "Dedent"
          /\ tokens_[i + 1].type \notin {"Dedent", "Eof"}

\* C6 as the spec states it: in a finished stream Eof is never immediately
\* preceded by Newline.
C6_EofNotAfterNewline ==
    (pc = "done" /\ Len(tokens_) >= 2) => tokens_[Len(tokens_) - 1].type # "Newline"

\* C6 amended: a finished stream ends in its only Eof; Eof is immediately
\* preceded by a Newline, or by the Dedent tokens closing the open blocks, which
\* the Newline of the last line immediately precedes; Eof stands alone only when
\* no other token was emitted.
C6_EofAfterNewlineOrDedents ==
    pc = "done" =>
        LET n == Len(tokens_)
            d == TrailingDedents(tokens_, n - 1)
        IN /\ tokens_[n].type = "Eof"
           /\ TypeCount(tokens_, "Eof") = 1
           /\ n = 1 \/ (n - 1 - d >= 1 /\ tokens_[n - 1 - d].type = "Newline")
           /\ (n > 1 /\ d = 0) => tokens_[n - 1].type = "Newline"

\* a finished stream of a one-token line: the token, Newline, Eof
C6_Witness ==
    /\ pc = "done"
    /\ Len(tokens_) >= 3
    /\ tokens_[Len(tokens_) - 1].type = "Newline"
    /\ tokens_[Len(tokens_)].type = "Eof"

\* C7: constructing the lexer terminates for every text: until the constructor
\* has returned, it can take a step that changes its state.
C7_ConstructionTerminates == pc = "done" \/ ENABLED <<NextLex>>_vars

\* the number of NextToken calls among the first n calls of the caller
Advances(n) == Cardinality({i \in 1..n : yielded[i].call = "NextToken"})

Min(a, b) == IF a < b THEN a ELSE b

\* C8: after construction the cursor is on the first token; the k-th token
\* handed to the caller is the token one past the NextToken calls made so far,
\* in stream order, and once Eof is reached every further call hands out Eof
\* again and leaves the cursor where it is.
C8_CursorWalksStream ==
    pc = "done" =>
        /\ current_index_ = Min(1 + Advances(Len(yielded)), Len(tokens_))
        /\ current_token_ = tokens_[current_index_]
        /\ \A i \in 1..Len(yielded) :
              yielded[i].tok = tokens_[Min(1 + Advances(i), Len(tokens_))]
        /\ \A i \in 1..Len(yielded) :
              (1 + Advances(i) >= Len(tokens_)) => yielded[i].tok.type = "Eof"

\* the caller read the first token, walked a stream of several tokens to the end
\* and advanced once more
C8_Witness ==
    /\ pc = "done"
    /\ Len(tokens_) >= 3
    /\ Len(yielded) > Len(tokens_)
    /\ yielded[1].call = "CurrentToken"

\* C9: the stream never holds two consecutive Newline tokens.
C9_NoConsecutiveNewlines ==
    \A i \in 1..(Len(tokens_) - 1) :
        ~(tokens_[i].type = "Newline" /\ tokens_[i + 1].type = "Newline")

\* two lines were tokenized and each ended in a Newline
C9_Witness ==
    /\ pc = "done"
    /\ nlines = 2
    /\ TypeCount(tokens_, "Newline") = 2


\* ------------------------------------------------------------------
\* Properties of method resolution and calls
\* ------------------------------------------------------------------

\* c and its ancestors, nearest first
RECURSIVE ParentChain(_, _)
ParentChain(ct, c) == IF ct[c].parent = NoParent THEN <<c>> ELSE <<c>> \o ParentChain(ct, ct[c].parent)

Declares(ct, c, name) == \E i \in 1..Len(ct[c].methods) : ct[c].methods[i].name = name

\* what resolution of name on c has to return: the earliest declaration of the
\* name in the nearest class of the chain that declares it
Resolution(ct, c, name) ==
    LET chain == ParentChain(ct, c)
        defining == {j \in 1..Len(chain) : Declares(ct, chain[j], name)}
    IN IF defining = {} THEN NoMethod
       ELSE LET nearest == CHOOSE j \in defining : \A j2 \in defining : j <= j2
                ms == ct[chain[nearest]].methods
                first == CHOOSE i \in 1..Len(ms) : ms[i].name = name /\ \A i2 \in 1..(i - 1) : ms[i2].name # name
            IN [found |-> TRUE, cls |-> chain[nearest], idx |-> first, m |-> ms[first]]

\* C3: GetMethod returns the first method of the requested name among the
\* class's own methods in declaration order, continues into the parent chain
\* only if there is none, and returns nothing when no class of the chain
\* declares the name; arities play no part.
C3_MethodResolutionOrder ==
    last.op = "GetMethod" => last.res = Resolution(classes, last.cls, last.name)

\* B's method shadows a method of A that has the same name and another arity
C3_Witness ==
    /\ last.op = "GetMethod"
    /\ last.cls = "B"
    /\ last.res.found
    /\ last.res.cls = "B"
    /\ Declares(classes, "B", last.name)
    /\ \E i \in 1..Len(classes["A"].methods) :
          /\ classes["A"].methods[i].name = last.name
          /\ Len(classes["A"].methods[i].formal_params) # Len(last.res.m.formal_params)

\* C4: Call executes a method body, the resolved method's, if and only if the
\* name resolves and the resolved method has as many formal parameters as
\* there are arguments; otherwise it executes nothing and fails with the
\* error of an unresolved name, also when an ancestor declares the name with
\* the arity asked for.
C4_CallRequiresMatchingArity ==
    last.op = "Call" =>
        LET res == Resolution(classes, last.cls, last.name)
            present == res.found /\ Len(res.m.formal_params) = Len(last.args)
        IN /\ (last.trace # <<>>) <=> present
           /\ present => last.trace[1].path = <<res.cls, res.idx>> /\ last.k = "ok"
           /\ ~present => last.k = "err" /\ last.v = ErrV("No method " \o last.name)

\* a call on B fails although A declares the name with the arity asked for
C4_Witness ==
    /\ last.op = "Call"
    /\ last.cls = "B"
    /\ last.k = "err"
    /\ last.trace = <<>>
    /\ Declares(classes, "B", last.name)
    /\ \E i \in 1..Len(classes["A"].methods) :
          /\ classes["A"].methods[i].name = last.name
          /\ Len(classes["A"].methods[i].formal_params) = Len(last.args)


\* ------------------------------------------------------------------
\* Properties of Return
\* ------------------------------------------------------------------
IsPrefix(p, q) == Len(p) <= Len(q) /\ SubSeq(q, 1, Len(p)) = p

\* the child of a node at position i, as Execute numbers the children
Child(node, i) ==
    CASE node.op = "Compound" -> node.args[i]
      [] node.op = "Print" -> node.args[i]
      [] node.op = "IfElse" -> IF i = 1 THEN node.cond ELSE IF i = 2 THEN node.then ELSE node.else
      [] node.op = "MethodBody" -> node.body
      [] node.op = "Return" -> node.stmt
      [] node.op = "MethodCall" -> IF i = 0 THEN node.obj ELSE node.args[i]

RECURSIVE Descend(_, _, _)
Descend(node, path, i) == IF i > Len(path) THEN node ELSE Descend(Child(node, path[i]), path, i + 1)

\* the node of a method body that a path names
NodeAt(ct, path) == Descend(ct[path[1]].methods[path[2]].body, path, 3)

\* C1: a Return that executes in a method body, however deep in Compound and
\* IfElse nodes, is caught by the MethodBody of that very body before anything
\* else executes, with exactly the value Return evaluated; no statement of
\* that body executes afterwards and the call yields that value; a Return in
\* an inner method leaves the outer body running: a Compound goes on to its
\* next statement unless a Return of its own body executed in the current one.
C1_ReturnUnwindsToMethodBody ==
    last.op = "Call" =>
        LET tr == last.trace
            n == Len(tr)
        IN /\ \A i \in 1..n : tr[i].ev = "throw" =>
                 /\ i < n
                 /\ tr[i + 1].ev = "caught"
                 /\ tr[i + 1].path = SubSeq(tr[i].path, 1, 2)
                 /\ tr[i + 1].v = tr[i].v
                 /\ NodeAt(classes, tr[i].path).stmt.op = "Const" => tr[i].v = NodeAt(classes, tr[i].path).stmt.v
           /\ \A i \in 1..n : tr[i].ev \in {"caught", "end"} =>
                 \A j \in (i + 1)..n : tr[j].ev = "exec" => ~IsPrefix(tr[i].path, tr[j].path)
           /\ \A i \in 1..n :
                 (tr[i].ev = "exec" /\ Len(tr[i].path) > 2) =>
                    LET q == SubSeq(tr[i].path, 1, Len(tr[i].path) - 1)
                        j == tr[i].path[Len(tr[i].path)]
                        parent == NodeAt(classes, q)
                        returned == \E t \in 1..n : tr[t].ev = "throw" /\ IsPrefix(tr[i].path, tr[t].path)
                        next == \E t \in (i + 1)..n : tr[t].ev = "exec" /\ tr[t].path = Append(q, j + 1)
                    IN (parent.op = "Compound" /\ j < Len(parent.args)) => (next <=> ~returned)
           /\ last.k = "ok"
           /\ tr[n].ev \in {"caught", "end"}
           /\ last.v = tr[n].v

\* inner returned, outer went on to the statement after the call, a Return
\* two levels deep, and yielded its value
C1_Witness ==
    /\ last.op = "Call"
    /\ last.name = "outer"
    /\ last.v = Num(9)
    /\ \E i, j \in 1..Len(last.trace) :
          /\ i < j
          /\ last.trace[i].ev = "caught"
          /\ last.trace[i].path = <<"K", 2>>
          /\ last.trace[j].ev = "throw"
          /\ IsPrefix(<<"K", 1>>, last.trace[j].path)
          /\ Len(last.trace[j].path) >= 5


\* ------------------------------------------------------------------
\* Properties of NewInstance
\* ------------------------------------------------------------------

\* C2: every execution of a NewInstance node returns an instance that no
\* earlier execution of the node returned and whose fields are empty when the
\* execution begins, so that a field stored through an earlier result is not
\* seen through a later one.
C2_NewInstanceIsFresh ==
    \A i \in 1..Len(last.news) :
        /\ last.news[i].fields = EmptyClosure
        /\ \A j \in 1..(i - 1) : last.news[j].v # last.news[i].v

\* ------------------------------------------------------------------
\* Properties of And and Or
\* ------------------------------------------------------------------

\* the closure, the fields and the output after a node
Effects(r) == [cl |-> r.cl, fields |-> r.st.fields, out |-> r.st.out]

\* C10: And with a falsy lhs returns Bool(false), Or with a truthy lhs
\* returns Bool(true), and in both cases rhs is not executed: closure, fields
\* and output are as lhs left them. Otherwise rhs is executed exactly once,
\* after lhs, and the result is Bool(IsTrue(rhs)).
C10_ShortCircuit ==
    last.op \in {"And", "Or"} =>
        LET l == Execute(classes, last.node.lhs, <<"main", 1, 1>>, last.pre.cl,
                         ContextOf(last.pre.fields, last.pre.out))
            r == Execute(classes, last.node.rhs, <<"main", 1, 2>>, l.cl,
                         ContextOf(l.st.fields, l.st.out))
            decided == IF last.op = "And" THEN ~IsTrue(l.v) ELSE IsTrue(l.v)
            rhs_runs == {i \in 1..Len(last.trace) :
                            last.trace[i].ev = "exec" /\ last.trace[i].path = <<"main", 1, 2>>}
            now == [cl |-> closure, fields |-> fields, out |-> output]
        IN /\ l.k = "ok"
           /\ last.k = "ok"
           /\ IF decided
              THEN /\ rhs_runs = {}
                   /\ last.v = BoolV(last.op = "Or")
                   /\ now = Effects(l)
              ELSE /\ rhs_runs = {Len(l.st.trace) + 2}
                   /\ r.k = "ok"
                   /\ last.v = BoolV(IsTrue(r.v))
                   /\ now = Effects(r)

\* an Or whose truthy lhs stored a variable and whose rhs, a method call
\* that prints, did not run
C10_Witness ==
    /\ last.op = "Or"
    /\ last.node.lhs = Assignment("l", Const(Str("a")))
    /\ last.node.rhs = MethodCall(VariableValue(<<"o">>), "m", <<>>)
    /\ last.v = BoolV(TRUE)
    /\ output = <<>>
    /\ closure["l"] = Str("a")


\* ------------------------------------------------------------------
\* Properties of errors
\* ------------------------------------------------------------------

\* the trace event at which a runtime_error is thrown: the lookup of the
\* unknown variable, or the evaluation of the receiver of a call whose method
\* is unknown (the call has no arguments, so Call comes next)
Raises(ct, e) ==
    /\ e.ev = "exec"
    /\ \/ NodeAt(ct, e.path) = Undefined
       \/ /\ e.path[Len(e.path)] = 0
          /\ NodeAt(ct, SubSeq(e.path, 1, Len(e.path) - 1)) = CallMissing

\* the error thrown at that event
Raised(ct, e) ==
    IF NodeAt(ct, e.path) = Undefined THEN ErrV("Not fieldnope") ELSE ErrV("No method missing")

\* C11: an error is caught by no node. Once a statement fails nothing else
\* executes: no later child of a Compound, nothing in the calling body, and
\* no MethodBody takes the error for a result; the call ends with that very
\* error. A call in which nothing fails ends with a value.
C11_ErrorsPropagate ==
    last.op = "Call" =>
        LET tr == last.trace
            n == Len(tr)
        IN /\ \A i \in 1..n : Raises(classes, tr[i]) =>
                 /\ i = n
                 /\ last.k = "err"
                 /\ last.v = Raised(classes, tr[i])
           /\ (\A i \in 1..n : ~Raises(classes, tr[i])) => last.k = "ok"

\* inner fails below a Compound of outer that has a statement after the call
C11_Witness ==
    /\ last.op = "Call"
    /\ last.name = "outer"
    /\ last.k = "err"
    /\ IsPrefix(<<"K", 2>>, last.trace[Len(last.trace)].path)
    /\ \E i \in 1..Len(last.trace) :
          /\ last.trace[i].ev = "exec"
          /\ last.trace[i].op = "MethodCall"
          /\ IsPrefix(<<"K", 1>>, last.trace[i].path)
          /\ LET q == SubSeq(last.trace[i].path, 1, Len(last.trace[i].path) - 1)
             IN /\ NodeAt(classes, q).op = "Compound"
                /\ last.trace[i].path[Len(last.trace[i].path)] = 1


\* ------------------------------------------------------------------
\* Properties of Expect and ExpectNext
\* ------------------------------------------------------------------

\* C12: Expect fails exactly when the current token is not of type T or, in
\* the valued form, carries another value, and leaves the cursor and the
\* current token as they were whether it fails or not; ExpectNext advances
\* the cursor exactly once and then checks the token it arrived at.
C12_ExpectChecksCurrentToken ==
    DOMAIN last # {} =>
        LET b == last.before
            checked == IF last.op = "Expect" THEN b.cur
                       ELSE IF b.idx < Len(tokens_) THEN tokens_[b.idx + 1]
                       ELSE b.cur
            fails == \/ checked.type # last.type
                     \/ (last.valued /\ checked.type = last.type /\ checked.value # last.value)
        IN /\ last.res.ok <=> ~fails
           /\ last.op = "Expect" => last.after = b
           /\ last.op = "ExpectNext" =>
                 /\ last.after.cur = checked
                 /\ last.after.idx = IF b.idx < Len(tokens_) THEN b.idx + 1 ELSE b.idx

\* a valued Expect that fails on the value alone, away from the first token
C12_Witness ==
    /\ DOMAIN last # {}
    /\ last.op = "Expect"
    /\ last.valued
    /\ last.before.idx > 1
    /\ last.before.cur.type = last.type
    /\ ~last.res.ok
    /\ last.after = last.before

\* ------------------------------------------------------------------
\* Properties of the comparisons
\* ------------------------------------------------------------------

\* the truth of a value: a Number other than 0, a String other than "", the
\* Bool true
Truthy(v) ==
    \/ v.t = "Number" /\ v.v # 0
    \/ v.t = "String" /\ v.v # ""
    \/ v.t = "Bool" /\ v.v

\* what the one-parameter method m of the host's class E answers to arg
Answer(m, arg) ==
    LET s == m.body.body
    IN IF s.op = "None" THEN [k |-> "ok", v |-> NoneV]
       ELSE IF s.stmt.op = "Const" THEN [k |-> "ok", v |-> s.stmt.v]
       ELSE IF s.stmt.ids = <<m.formal_params[1]>> THEN [k |-> "ok", v |-> arg]
       ELSE [k |-> "err", v |-> ErrV("Not field" \o s.stmt.ids[1])]

\* C13: Equal answers true for two empty operands; for two Numbers, two
\* Strings or two Bools it answers whether the values are equal; for an
\* instance on the left whose class resolves __eq__ to a method of one
\* parameter it calls that method with rhs and answers the truth of what the
\* method returned; in every other case it fails and calls nothing.
C13_EqualCases ==
    last.op = "Equal" =>
        LET lhs == last.lhs
            rhs == last.rhs
            eq == Resolution(classes, "E", EQ_METHOD)
        IN IF lhs.t = "None" /\ rhs.t = "None"
           THEN last.res.k = "ok" /\ last.res.x = TRUE
           ELSE IF lhs.t = rhs.t /\ lhs.t \in {"Number", "String", "Bool"}
           THEN last.res.k = "ok" /\ last.res.x = (lhs.v = rhs.v)
           ELSE IF lhs.t = "Instance" /\ eq.found /\ Len(eq.m.formal_params) = 1
           THEN LET a == Answer(eq.m, rhs)
                IN /\ last.trace # <<>>
                   /\ last.trace[1].path = <<"E", eq.idx>>
                   /\ last.res.k = a.k
                   /\ last.res.x = IF a.k = "ok" THEN Truthy(a.v) ELSE a.v
           ELSE /\ last.res.k = "err"
                /\ last.res.x = ErrV("Cannot compare objects for equality")
                /\ last.trace = <<>>

\* __eq__(other) returns other, and Equal of an instance and the Number 1 is true
C13_Witness ==
    /\ last.op = "Equal"
    /\ last.lhs.t = "Instance"
    /\ last.rhs = Num(1)
    /\ Resolution(classes, "E", EQ_METHOD).found
    /\ Resolution(classes, "E", EQ_METHOD).m.body = MethodBody(Return(VariableValue(<<"other">>)))
    /\ last.res.k = "ok"
    /\ last.res.x = TRUE

\* C14: Less of two empty operands fails, and so do LessOrEqual, Greater and
\* GreaterOrEqual, which are derived from it, although Equal of two empty
\* operands is true.
C14_OrderingOfNoneFails ==
    (last.op \in Comparators /\ last.lhs.t = "None" /\ last.rhs.t = "None") =>
        /\ last.op \in {"Less", "LessOrEqual", "Greater", "GreaterOrEqual"} =>
              /\ last.res.k = "err"
              /\ last.res.x = ErrV("Cannot compare objects for less")
        /\ last.op = "Equal" => (last.res.k = "ok" /\ last.res.x = TRUE)

\* GreaterOrEqual of two empty operands has failed
C14_Witness ==
    /\ last.op = "GreaterOrEqual"
    /\ last.lhs.t = "None"
    /\ last.rhs.t = "None"
    /\ last.res.k = "err"

\* ------------------------------------------------------------------
\* Properties of the arithmetic
\* ------------------------------------------------------------------

\* where in the trace the node at path began to execute, 0 if it never did
Started(tr, path) ==
    LET at == {i \in 1..Len(tr) : tr[i].ev = "exec" /\ tr[i].path = path}
    IN IF at = {} THEN 0 ELSE CHOOSE i \in at : \A j \in at : i <= j

\* C15: Add, Sub and Mult execute lhs and then rhs, and rhs only if lhs did
\* not fail. For two Numbers the result is their sum, difference or product.
\* Add also concatenates two Strings, and for an instance on the left it
\* returns what __add__ of its class returns for rhs, which fails unless that
\* method exists with one parameter. Every other combination fails.
C15_AddSubMult ==
    last.op \in {"Add", "Sub", "Mult"} =>
        LET tr == last.trace
            l == Started(tr, <<"main", 1, 1>>)
            r == Started(tr, <<"main", 1, 2>>)
            add == Resolution(classes, "V", ADD_METHOD)
        IN /\ l # 0
           /\ r # 0 => l < r
           /\ IF last.lhs = Undefined THEN r = 0 /\ last.k = "err"
              ELSE /\ r # 0
                   /\ IF last.rhs = Undefined THEN last.k = "err" /\ last.v = ErrV("Not fieldnope")
                      ELSE LET a == last.lhs.v
                               b == last.rhs.v
                           IN IF a.t = "Number" /\ b.t = "Number"
                              THEN /\ last.k = "ok"
                                   /\ last.v.t = "Number"
                                   /\ last.v.v = CASE last.op = "Add" -> a.v + b.v
                                                   [] last.op = "Sub" -> a.v - b.v
                                                   [] last.op = "Mult" -> a.v * b.v
                              ELSE IF last.op = "Add" /\ a.t = "String" /\ b.t = "String"
                              THEN last.k = "ok" /\ last.v.t = "String" /\ last.v.v = a.v \o b.v
                              ELSE IF last.op = "Add" /\ a.t = "Instance" /\ add.found /\ Len(add.m.formal_params) = 1
                              THEN /\ Started(tr, <<"V", add.idx>>) > r
                                   /\ last.k = Answer(add.m, b).k
                                   /\ last.v = Answer(add.m, b).v
                              ELSE /\ last.k = "err"
                                   /\ \A i \in 1..Len(tr) : tr[i].path[1] = "main"

\* __add__(other) returns other, and an instance plus 2 is 2
C15_Witness ==
    /\ last.op = "Add"
    /\ last.lhs = Const(Inst(<<"main", 0>>, "V"))
    /\ last.rhs = Const(Num(2))
    /\ Resolution(classes, "V", ADD_METHOD).found
    /\ Resolution(classes, "V", ADD_METHOD).m.body = MethodBody(Return(VariableValue(<<"other">>)))
    /\ last.k = "ok"
    /\ last.v = Num(2)

\* C16: Div of the Numbers a and b fails when b is 0 and produces no value;
\* otherwise its result is the Number q nearest to zero with |a - q b| < |b|,
\* the quotient truncated toward zero, whatever the signs of a and b. With an
\* operand that is not a Number it fails.
C16_DivTruncates ==
    (last.op = "Div" /\ last.lhs # Undefined /\ last.rhs # Undefined) =>
        LET a == last.lhs.v
            b == last.rhs.v
        IN IF a.t = "Number" /\ b.t = "Number"
           THEN IF b.v = 0
                THEN last.k = "err" /\ last.v = ErrV("The denominator is zero")
                ELSE /\ last.k = "ok"
                     /\ last.v.t = "Number"
                     /\ Abs(last.v.v * b.v) <= Abs(a.v)
                     /\ Abs(a.v - last.v.v * b.v) < Abs(b.v)
           ELSE last.k = "err" /\ last.v = ErrV("The operator is not overloaded /")

\* -7 / 2 is -3
C16_Witness ==
    /\ last.op = "Div"
    /\ last.lhs = Const(Num(-7))
    /\ last.rhs = Const(Num(2))
    /\ last.k = "ok"
    /\ last.v = Num(-3)

\* ------------------------------------------------------------------
\* Properties of IsTrue
\* ------------------------------------------------------------------

\* C17: IsTrue is true exactly for a Number other than 0, a String that is
\* not empty and the Bool true; it is false for the empty reference, for 0,
\* "" and false, and for every Class and every ClassInstance, whatever its
\* class declares and its fields hold.
C17_IsTrueTable ==
    last.op = "IsTrue" =>
        /\ last.v.t = "Number" => (last.res <=> last.v.v # 0)
        /\ last.v.t = "String" => (last.res <=> last.v.v # "")
        /\ last.v.t = "Bool" => (last.res <=> last.v.v)
        /\ last.v.t \in {"None", "Class", "Instance"} => ~last.res

\* an instance that has a field and whose class declares __eq__ is not true
C17_Witness ==
    /\ last.op = "IsTrue"
    /\ last.v = TheTested
    /\ FieldsOf(fields, TheTested.id) # EmptyClosure
    /\ Declares(classes, "E", EQ_METHOD)
    /\ ~last.res

\* ------------------------------------------------------------------
\* Properties of the indentation
\* ------------------------------------------------------------------

\* the number of spaces a line begins with
LeadingSpaces(line) ==
    CHOOSE k \in 0..Len(line) : /\ \A i \in 1..k : line[i] = " "
                                /\ k < Len(line) => line[k + 1] # " "

\* a line of nothing, of spaces only, or whose first character after the
\* spaces opens a comment
Skipped(line) ==
    \/ LeadingSpaces(line) = Len(line)
    \/ line[LeadingSpaces(line) + 1] = "#"

\* C18: a line that is not skipped and begins with an even number k of
\* spaces, read when the indent is s, adds (k - s) / 2 Indent tokens if
\* k > s, (s - k) / 2 Dedent tokens if k < s and neither if k = s; these come
\* before every token of the line's body, which holds no Indent or Dedent,
\* and the indent is k from then on.
C18_IndentDedentCount ==
    (last.op = "getline" /\ pc # "done" /\ ~Skipped(last.line) /\ LeadingSpaces(last.line) % 2 = 0) =>
        LET k == LeadingSpaces(last.line)
            s == last.ind
            n == IF k > s THEN (k - s) \div 2 ELSE (s - k) \div 2
            kind == IF k > s THEN "Indent" ELSE "Dedent"
            new == SubSeq(tokens_, Len(last.toks) + 1, Len(tokens_))
        IN /\ Len(tokens_) >= Len(last.toks) + n
           /\ SubSeq(tokens_, 1, Len(last.toks)) = last.toks
           /\ \A i \in 1..n : new[i] = Tok(kind)
           /\ \A i \in (n + 1)..Len(new) : new[i].type \notin {"Indent", "Dedent"}
           /\ indent_size_ = k

\* a line of four spaces read at indent 0 has given two Indent tokens and its word
C18_Witness ==
    /\ last.op = "getline"
    /\ pc = "getline"
    /\ last.line = Spaces(4) \o <<"a">>
    /\ last.ind = 0
    /\ last.toks # <<>>
    /\ SubSeq(tokens_, Len(last.toks) + 1, Len(tokens_))
          = <<Tok("Indent"), Tok("Indent"), ValTok("Id", <<"a">>), Tok("Newline")>>

\* C19: an empty line, a line of spaces and a line holding only a comment add
\* no token and leave the indent as it was, however many spaces they begin
\* with: such a line closes no block.
C19_SkippedLineIsInert ==
    (last.op = "getline" /\ pc # "done" /\ Skipped(last.line)) =>
        /\ pc = "getline"
        /\ tokens_ = last.toks
        /\ indent_size_ = last.ind

\* a comment in the first column, read inside a block, has closed nothing
C19_Witness ==
    /\ last.op = "getline"
    /\ pc = "getline"
    /\ last.line = <<"#">>
    /\ last.ind = 4
    /\ indent_size_ = 4
    /\ tokens_ = last.toks

\* ------------------------------------------------------------------
\* Properties of self
\* ------------------------------------------------------------------

\* the Number the body of set stores in self.x
Stored(ct) == ct["S"].methods[1].body.body.args[1].rv.v

\* C20: in the closure a method body runs in, self denotes the receiver
\* whatever the parameters are named: a call of set that ends returns the
\* receiver, and r.x read after the call is the value the body stored.
C20_SelfIsReceiver ==
    /\ (last.op = "Call" /\ last.k = "ok") => last.v = TheReceiver
    /\ (last.op = "VariableValue" /\ last.call.k = "ok") =>
          (last.k = "ok" /\ last.v = Stored(classes))

\* the same for the methods none of whose parameters is named self
C20_SelfIsReceiverUnlessShadowed ==
    (\A i \in 1..Len(classes["S"].methods[1].formal_params) :
        classes["S"].methods[1].formal_params[i] # "self") => C20_SelfIsReceiver


\* ------------------------------------------------------------------
\* equal indentation of neighbouring lines, and the indent counter
\* ------------------------------------------------------------------
\* the step of GetLine that reads a line which is not skipped, straight after
\* a line which is not skipped and begins with as many spaces
SameIndentStep ==
    /\ last.op = "getline"
    /\ pc = "getline"
    /\ nlines' = nlines + 1
    /\ ~Skipped(last.line)
    /\ ~Skipped(last'.line)
    /\ LeadingSpaces(last'.line) = LeadingSpaces(last.line)

\* C24: when a line that is not skipped follows a line that is not skipped
\* and begins with the same number of spaces, LoadTab adds no Indent and no
\* Dedent token for the second line, whether that number is even or odd.
C24_SameIndentAddsNothing ==
    [][SameIndentStep => (tokens_' = tokens_ /\ indent_size_' = indent_size_)]_vars

\* C27: at every point of the tokenization indent_size_ is even, is twice
\* the number of Indent tokens less the number of Dedent tokens emitted so
\* far, and is not negative: no decrement takes the unsigned counter below
\* zero.
C27_IndentSizeCountsTokens ==
    /\ indent_size_ % 2 = 0
    /\ indent_size_ = 2 * (TypeCount(tokens_, "Indent") - TypeCount(tokens_, "Dedent"))
    /\ indent_size_ >= 0

\* a line of three spaces read at indent 4 has stepped the counter down to 2
C27_Witness ==
    /\ last.op = "getline"
    /\ last.line = Spaces(3) \o <<"a">>
    /\ last.ind = 4
    /\ indent_size_ = 2
    /\ TypeCount(tokens_, "Dedent") = 1
    /\ TypeCount(tokens_, "Indent") = 2

\* ------------------------------------------------------------------
\* FieldAssignment and MethodCall on a target that is no instance
\* ------------------------------------------------------------------
TheTarget == Inst(<<"main", 0>>, "T")

\* what the name t may hold, and what a target expression may evaluate to
TargetValues == {Num(1), Str("s"), BoolV(TRUE), ClassV("T"), NoneV, TheTarget}

\* right-hand sides and arguments whose execution would show: a binding, a
\* line of output, an error, or nothing at all
Operands == {Assignment("x", Const(Num(9))), PrintText("rhs"), Undefined, Const(Num(9))}

\* the statement whose Execute gives the value v
TargetNode(v) == IF v = NoneV THEN NoneNode ELSE Const(v)

\* class T with the method m of one parameter; the global t holds the target
InitTarget ==
    /\ LexIdle
    /\ classes = [T |-> Class("T", <<Method("m", <<"a">>, MethodBody(Return(VariableValue(<<"a">>))))>>, NoParent)]
    /\ \E v \in TargetValues : closure = [t |-> v, x |-> Num(0)]
    /\ fields = <<>>
    /\ output = <<>>
    /\ last = [op |-> "none"]

\* the host executes t.f = rv, once
AssignField ==
    /\ last.op = "none"
    /\ \E rv \in Operands :
          \E r \in {Execute(classes, FieldAssignment(<<"t">>, "f", rv), <<"main", 1>>, closure, Context)} :
              /\ last' = [op |-> "FieldAssignment", target |-> closure["t"], operand |-> rv,
                          k |-> r.k, v |-> r.v, trace |-> r.st.trace,
                          closure |-> closure, fields |-> fields, output |-> output]
              /\ closure' = r.cl
              /\ fields' = r.st.fields
              /\ output' = r.st.out
              /\ UNCHANGED <<lexvars, classes>>

\* the host executes object.m(arg), once; object is the name t or a constant
CallOnTarget ==
    /\ last.op = "none"
    /\ \E arg \in Operands, object \in {VariableValue(<<"t">>)} \cup {TargetNode(v) : v \in TargetValues \ {TheTarget}} :
          \E r \in {Execute(classes, MethodCall(object, "m", <<arg>>), <<"main", 1>>, closure, Context)} :
              /\ last' = [op |-> "MethodCall",
                          target |-> IF object.op = "VariableValue" THEN closure["t"]
                                     ELSE IF object.op = "None" THEN NoneV ELSE object.v,
                          operand |-> arg,
                          k |-> r.k, v |-> r.v, trace |-> r.st.trace,
                          closure |-> closure, fields |-> fields, output |-> output]
              /\ closure' = r.cl
              /\ fields' = r.st.fields
              /\ output' = r.st.out
              /\ UNCHANGED <<lexvars, classes>>

NextTarget == AssignField \/ CallOnTarget

SpecTarget == InitTarget /\ [][NextTarget]_vars

\* C25: when the target of a FieldAssignment or of a MethodCall evaluates to
\* a Number, a String, a Bool, a Class or the empty reference, the statement
\* returns the empty reference and raises nothing; the right-hand side or the
\* argument is not executed, and the closure, the fields and the output are
\* what they were.
C25_NonInstanceTargetIsSkipped ==
    (last.op \in {"FieldAssignment", "MethodCall"} /\ last.target.t # "Instance") =>
        /\ last.k = "ok"
        /\ last.v = NoneV
        /\ \A i \in 1..Len(last.trace) : ~IsPrefix(<<"main", 1, 1>>, last.trace[i].path)
        /\ closure = last.closure
        /\ fields = last.fields
        /\ output = last.output

\* t holds a String and t.f = (x = 9) has returned the empty reference
C25_Witness ==
    /\ last.op = "FieldAssignment"
    /\ last.target = Str("s")
    /\ last.operand = Assignment("x", Const(Num(9)))
    /\ last.k = "ok"
    /\ closure["x"] = Num(0)

\* ------------------------------------------------------------------
\* printing an instance through __str__
\* ------------------------------------------------------------------
ThePrinted(cls) == Inst(<<"main", 0>>, cls)

\* bodies of __str__: they return a String, a Number, a Bool, an instance
\* without __str__, None, or nothing at all
StrBodies == {Return(Const(Str("s"))), Return(Const(Num(7))), Return(Const(BoolV(TRUE))),
              Return(NewInstance("Plain", <<>>)), Return(NoneNode), PrintText("side"),
              Compound(<<PrintText("side"), Return(Const(Str("s")))>>), Compound(<<>>)}

StrParamLists == {<<>>, <<"x">>}

\* Base declares __str__, Derived inherits it, Plain has no method; the
\* global o holds an instance of one of them
InitStr ==
    /\ LexIdle
    /\ \E b \in StrBodies, ps \in StrParamLists :
          classes = [Base |-> Class("Base", <<Method(STR_METHOD, ps, MethodBody(b))>>, NoParent),
                     Derived |-> Class("Derived", <<>>, "Base"),
                     Plain |-> Class("Plain", <<>>, NoParent)]
    /\ \E c \in {"Base", "Derived", "Plain"} : closure = [o |-> ThePrinted(c)]
    /\ fields = <<>>
    /\ output = <<>>
    /\ last = [op |-> "none"]

\* the host executes print o, once
PrintInstance ==
    /\ last.op = "none"
    /\ \E r \in {Execute(classes, PrintNode(<<VariableValue(<<"o">>)>>), <<"main", 1>>, closure, Context)} :
          /\ last' = [op |-> "Print", self |-> closure["o"], k |-> r.k, v |-> r.v]
          /\ closure' = r.cl
          /\ fields' = r.st.fields
          /\ output' = r.st.out
          /\ UNCHANGED <<lexvars, classes>>

\* the host executes str(o), once
StringifyInstance ==
    /\ last.op = "none"
    /\ \E r \in {Execute(classes, Stringify(VariableValue(<<"o">>)), <<"main", 1>>, closure, Context)} :
          /\ last' = [op |-> "Stringify", self |-> closure["o"], k |-> r.k, v |-> r.v]
          /\ closure' = r.cl
          /\ fields' = r.st.fields
          /\ output' = r.st.out
          /\ UNCHANGED <<lexvars, classes>>

NextStr == PrintInstance \/ StringifyInstance

SpecStr == InitStr /\ [][NextStr]_vars

\* C26: printing an instance whose class chain has a __str__ without
\* parameters completes whatever __str__ returned, the empty reference
\* included: print writes a text and the end of the line, str gives a String,
\* and no empty reference is dereferenced.
C26_StrPrintCompletes ==
    (last.op \in {"Print", "Stringify"} /\ HasMethod(classes, last.self.cls, STR_METHOD, 0)) =>
        /\ last.k = "ok"
        /\ last.op = "Print" => (Len(output) >= 2 /\ output[Len(output)] = "\n")
        /\ last.op = "Stringify" => last.v.t = "String"

\* the same for the bodies of __str__ that return an object
C26_StrPrintCompletesForObjects ==
    (/\ last.op \in {"Print", "Stringify"}
     /\ HasMethod(classes, last.self.cls, STR_METHOD, 0)
     /\ GetMethod(classes, last.self.cls, STR_METHOD).m.body.body
            \notin {Return(NoneNode), PrintText("side"), Compound(<<>>)}) =>
        /\ last.k = "ok"
        /\ last.op = "Print" => (Len(output) >= 2 /\ output[Len(output)] = "\n")
        /\ last.op = "Stringify" => last.v.t = "String"

\* ------------------------------------------------------------------
\* the closure of a call
\* ------------------------------------------------------------------
TheCaller == Inst(<<"main", 0>>, "F")

\* bodies of m: they bind a name the caller has, bind a new name, or read a
\* name: of the caller only (g, o), a parameter (a), or self
FrameBodies == {Compound(<<Assignment("g", Const(Num(2))), Return(VariableValue(<<"g">>))>>),
                Assignment("fresh", Const(Num(2))),
                Return(VariableValue(<<"g">>)),
                Return(VariableValue(<<"o">>)),
                Return(VariableValue(<<"a">>)),
                Return(VariableValue(<<"self">>))}

FrameParamLists == {<<>>, <<"a">>, <<"g">>}

FrameArgs == {Const(Num(5)), VariableValue(<<"g">>)}

\* outer(): g = 1, self.m(5, ...), return g
OuterBody(n) == MethodBody(Compound(<<Assignment("g", Const(Num(1))),
                                      MethodCall(VariableValue(<<"self">>), "m", [i \in 1..n |-> Const(Num(5))]),
                                      Return(VariableValue(<<"g">>))>>))

\* what the caller binds besides o: g, and perhaps a
FrameGlobals == {[g |-> v] : v \in {Num(1), Str("g")}} \cup {[g |-> v, a |-> Num(4)] : v \in {Num(1), Str("g")}}

\* class F with m and outer; the globals o (an instance of F), g and perhaps a
InitFrame ==
    /\ LexIdle
    /\ \E b \in FrameBodies, ps \in FrameParamLists :
          classes = [F |-> Class("F", <<Method("m", ps, MethodBody(b)),
                                       Method("outer", <<>>, OuterBody(Len(ps)))>>, NoParent)]
    /\ \E gl \in FrameGlobals : closure = Put(gl, "o", TheCaller)
    /\ fields = <<>>
    /\ output = <<>>
    /\ last = [op |-> "none"]

\* the host executes o.m(args), once
CallFromGlobal ==
    /\ last.op = "none"
    /\ \E args \in [1..Len(classes["F"].methods[1].formal_params) -> FrameArgs] :
          \E r \in {Execute(classes, MethodCall(VariableValue(<<"o">>), "m", args), <<"main", 1>>, closure, Context)} :
              /\ last' = [op |-> "Call", via |-> "m", k |-> r.k, v |-> r.v, closure |-> closure]
              /\ closure' = r.cl
              /\ fields' = r.st.fields
              /\ output' = r.st.out
              /\ UNCHANGED <<lexvars, classes>>

\* the host executes o.outer(), once: m is called from the body of outer
CallFromMethod ==
    /\ last.op = "none"
    /\ \E r \in {Execute(classes, MethodCall(VariableValue(<<"o">>), "outer", <<>>), <<"main", 1>>, closure, Context)} :
          /\ last' = [op |-> "Call", via |-> "outer", k |-> r.k, v |-> r.v, closure |-> closure]
          /\ closure' = r.cl
          /\ fields' = r.st.fields
          /\ output' = r.st.out
          /\ UNCHANGED <<lexvars, classes>>

NextFrame == CallFromGlobal \/ CallFromMethod

SpecFrame == InitFrame /\ [][NextFrame]_vars

\* the name a body of the form return <name> reads
ReadName(b) == b.stmt.ids[1]

\* the names bound in the closure of a call of the method
BoundInCall(method) == {method.formal_params[i] : i \in 1..Len(method.formal_params)} \cup {"self"}

\* C21: a method body runs in a closure of its own that holds the formal
\* parameters and self only. The closure of the caller is the same after the
\* call as before it; a name bound by an Assignment in the body is bound
\* there only, so the caller still reads its own value of that name; and a
\* name bound only in the closure of the caller, global or of a calling
\* method, does not resolve in the body.
C21_CallRunsInFreshClosure ==
    last.op = "Call" =>
        LET m == classes["F"].methods[1]
            b == m.body.body
        IN /\ closure = last.closure
           /\ (b.op = "Return" /\ ReadName(b) \notin BoundInCall(m)) =>
                  (last.k = "err" /\ last.v = ErrV("Not field" \o ReadName(b)))
           /\ (b.op = "Return" /\ ReadName(b) \in BoundInCall(m) /\ last.via = "m") =>
                  last.k = "ok"
           /\ (b.op = "Compound" /\ last.via = "m") => (last.k = "ok" /\ last.v = Num(2))
           /\ (last.via = "outer" /\ last.k = "ok") => last.v = Num(1)

\* m bound g to 2 and returned it; the caller's g is still 1
C21_Witness ==
    /\ last.op = "Call"
    /\ last.via = "m"
    /\ classes["F"].methods[1].body.body.op = "Compound"
    /\ last.v = Num(2)
    /\ closure["g"] = Num(1)

\* ------------------------------------------------------------------
\* VariableValue over a dotted chain
\* ------------------------------------------------------------------
MaxChain == 3   \* segments of a dotted name

InstA == Inst(<<"main", 0>>, "N")
InstB == Inst(<<"main", 1>>, "N")

\* the fields the two instances may have
FieldsOfA == {EmptyClosure, [next |-> InstB], [next |-> Num(2)], [next |-> NoneV]}
FieldsOfB == {EmptyClosure, [val |-> Str("v")], [next |-> InstA], [val |-> InstB]}

\* the closure binds x to the first instance or to a Number, or does not bind x
ChainClosures == {[x |-> InstA], [x |-> Num(1)], [y |-> InstA]}

Segments == {"x", "next", "val"}

DottedIds == UNION {[1..n -> Segments] : n \in 1..MaxChain}

InitChain ==
    /\ LexIdle
    /\ classes = [N |-> Class("N", <<>>, NoParent)]
    /\ closure \in ChainClosures
    /\ \E fa \in FieldsOfA, fb \in FieldsOfB :
          fields = [id \in {InstA.id, InstB.id} |-> IF id = InstA.id THEN fa ELSE fb]
    /\ output = <<>>
    /\ last = [op |-> "none"]

\* the host executes the dotted name, once
ReadChain ==
    /\ last.op = "none"
    /\ \E ids \in DottedIds :
          \E r \in {Execute(classes, VariableValue(ids), <<"main", 2>>, closure, Context)} :
              /\ last' = [op |-> "VariableValue", ids |-> ids, k |-> r.k, v |-> r.v,
                          closure |-> closure, fields |-> fields]
              /\ closure' = r.cl
              /\ fields' = r.st.fields
              /\ output' = r.st.out
              /\ UNCHANGED <<lexvars, classes>>

NextChain == ReadChain

SpecChain == InitChain /\ [][NextChain]_vars

Unbound == [t |-> "Unbound"]

\* what the first n segments of ids name, given the closure cl and the fields
\* flds: the object bound to segment n in the fields of the instance named by
\* the first n - 1 segments, or Unbound
RECURSIVE Named(_, _, _, _)
Named(ids, n, cl, flds) ==
    IF n = 1 THEN IF ids[1] \in DOMAIN cl THEN cl[ids[1]] ELSE Unbound
    ELSE LET owner == Named(ids, n - 1, cl, flds)
         IN IF owner.t = "Instance" /\ ids[n] \in DOMAIN FieldsOf(flds, owner.id)
            THEN FieldsOf(flds, owner.id)[ids[n]]
            ELSE Unbound

\* C22: a dotted name whose first segment is bound in the closure and whose
\* every further segment is a field of the instance named so far evaluates
\* to the very object bound at the last segment; when a segment is unbound,
\* or a segment before the last names something that is no instance, the
\* evaluation fails. Either way the closure and the fields are unchanged.
C22_DottedChain ==
    last.op = "VariableValue" =>
        LET n == Len(last.ids)
            named == [i \in 1..n |-> Named(last.ids, i, last.closure, last.fields)]
        IN /\ (\A i \in 1..n : named[i] # Unbound) => (last.k = "ok" /\ last.v = named[n])
           /\ (\E i \in 1..n : named[i] = Unbound) => last.k = "err"
           /\ closure = last.closure
           /\ fields = last.fields

\* x.next.next went through both instances and gave the first one back
C22_Witness ==
    /\ last.op = "VariableValue"
    /\ last.ids = <<"x", "next", "next">>
    /\ last.k = "ok"
    /\ last.v = InstA

\* ------------------------------------------------------------------
\* print and str of values that nothing else owns
\* ------------------------------------------------------------------
MaxPrinted == 2   \* arguments of a print

TheOwner == Inst(<<"main", 0>>, "W")

OnePlusTwo == BinaryOperation("Add", Const(Num(1)), Const(Num(2)))

\* the methods of W: fresh returns a new object, kept stores it in a field
\* first, local binds it to a name of its own closure first, echo returns its
\* argument
OwnMethods == <<Method("fresh", <<>>, MethodBody(Return(OnePlusTwo))),
                Method("kept", <<>>, MethodBody(Compound(<<FieldAssignment(<<"self">>, "f", OnePlusTwo),
                                                           Return(VariableValue(<<"self", "f">>))>>))),
                Method("local", <<>>, MethodBody(Compound(<<Assignment("y", OnePlusTwo),
                                                            Return(VariableValue(<<"y">>))>>))),
                Method("echo", <<"a">>, MethodBody(Return(VariableValue(<<"a">>))))>>

CallOwner(method, args) == MethodCall(VariableValue(<<"o">>), method, args)

\* what is printed: constants and names, whose objects a node or the closure
\* keeps; results of Add, Div, str, not, which only the returned holder owns;
\* an assignment, which stores the result first; and calls
PrintedNodes == {Const(Num(3)), Const(Str("s")), NoneNode, VariableValue(<<"x">>), VariableValue(<<"o">>),
                 OnePlusTwo,
                 BinaryOperation("Add", Const(Str("a")), Const(Str("b"))),
                 BinaryOperation("Div", Const(Num(7)), Const(Num(2))),
                 Stringify(Const(Num(3))),
                 Not(Const(Num(0))),
                 Assignment("z", OnePlusTwo),
                 CallOwner("fresh", <<>>), CallOwner("kept", <<>>), CallOwner("local", <<>>),
                 CallOwner("echo", <<Const(Num(3))>>), CallOwner("echo", <<OnePlusTwo>>)}

\* what the read of a released object may give: the bytes the object had, other
\* bytes, or a fault
Outcomes == {"intact", "garbage", "crash"}

Garbage == "?"

InitOwn ==
    /\ LexIdle
    /\ classes = [W |-> Class("W", OwnMethods, NoParent)]
    /\ closure = [o |-> TheOwner, x |-> Num(3)]
    /\ fields = <<>>
    /\ output = <<>>
    /\ last = [op |-> "none"]

\* the text Object::Print writes for a released object that was v: what v
\* held, or other bytes
Seen(v, st, outcome) ==
    IF outcome = "intact" THEN PrintObject(classes, v, [st EXCEPT !.out = <<>>]).st.out[1] ELSE Garbage

\* the output after a print that ended in r. After the read of a released
\* object it is one of Outcomes, and nothing is known of what comes after.
Observed(r, outcome) ==
    IF r.k # "ub" \/ outcome = "crash" THEN r.st.out
    ELSE Append(r.st.out, Seen(r.v, r.st, outcome))

\* the value of a str that ended in r: after the read of a released object
\* the String holds what was read, unless the read faulted
Stringified(r, outcome) ==
    IF r.k # "ub" \/ outcome = "crash" THEN r.v
    ELSE Str(Seen(r.v, r.st, outcome))

\* the host executes print a1, ..., an, once
PrintValues ==
    /\ last.op = "none"
    /\ \E n \in 1..MaxPrinted : \E args \in [1..n -> PrintedNodes] :
          \E r \in {Execute(classes, PrintNode(args), <<"main", 1>>, closure, Context)} :
              \E outcome \in IF r.k = "ub" THEN Outcomes ELSE {"defined"} :
                  /\ last' = [op |-> "Print", args |-> args, k |-> r.k, v |-> r.v,
                              trace |-> r.st.trace, outcome |-> outcome]
                  /\ closure' = r.cl
                  /\ fields' = r.st.fields
                  /\ output' = Observed(r, outcome)
                  /\ UNCHANGED <<lexvars, classes>>

\* the host executes str(a), once
StringifyValue ==
    /\ last.op = "none"
    /\ \E a \in PrintedNodes :
          \E r \in {Execute(classes, Stringify(a), <<"main", 1>>, closure, Context)} :
              \E outcome \in IF r.k = "ub" THEN Outcomes ELSE {"defined"} :
                  /\ last' = [op |-> "Stringify", args |-> <<a>>, k |-> r.k, v |-> Stringified(r, outcome),
                              trace |-> r.st.trace, outcome |-> outcome]
                  /\ closure' = r.cl
                  /\ fields' = r.st.fields
                  /\ output' = r.st.out
                  /\ UNCHANGED <<lexvars, classes>>

NextOwn == PrintValues \/ StringifyValue

SpecOwn == InitOwn /\ [][NextOwn]_vars

\* the reads of released objects in a trace
ReleasedReads(tr) == {i \in 1..Len(tr) : tr[i].ev = "released"}

\* the arguments whose object is kept by a node, by a closure that outlives
\* the print, or by a field: constants, names, None, an assignment, and the
\* calls that return such an object
KeptNodes == {Const(Num(3)), Const(Str("s")), NoneNode, VariableValue(<<"x">>), VariableValue(<<"o">>),
              Assignment("z", OnePlusTwo), CallOwner("kept", <<>>), CallOwner("echo", <<Const(Num(3))>>)}

\* C23: print and str never read an object after its last owning reference
\* was released: whatever the argument evaluates to, a new object returned
\* by Add, Div, str or not included, the object is alive when its Print is
\* invoked.
C23_PrintReadsLiveObjects ==
    last.op \in {"Print", "Stringify"} => (ReleasedReads(last.trace) = {} /\ last.k # "ub")

\* the same for the arguments whose object something else keeps
C23_KeptObjectsAreLive ==
    (last.op \in {"Print", "Stringify"} /\ \A i \in 1..Len(last.args) : last.args[i] \in KeptNodes) =>
        (ReleasedReads(last.trace) = {} /\ last.k = "ok")

\* every other argument is read after its release
C23_NewObjectsAreReleased ==
    (last.op \in {"Print", "Stringify"} /\ \E i \in 1..Len(last.args) : last.args[i] \notin KeptNodes) =>
        (ReleasedReads(last.trace) # {} /\ last.k = "ub")

====
